---------------------------- MODULE Spec2Model ----------------------------
(***************************************************************************)
(* Job dispatch (coordinator, queue consumer, distributed worker) and the  *)
(* circuit breaker of the six-worker loaders, as state machines.           *)
(*                                                                         *)
(*   SpecJobs : job_queue table, POST /jobs/claim, DistributedWorker.run   *)
(*   SpecCB   : retry_utils.CircuitBreaker under a discrete clock          *)
(*   SpecRetry: retry_utils.retry_on_exception around one callable         *)
(*   SpecDLQ  : dlq_handler failed_records table and two DLQReprocessors   *)
(*   SpecLoader: BaseDataLoader.run, one run after another on one file     *)
(*   SpecPool : connection_pool.ConnectionPool.get_connection              *)
(*   SpecTelemetry: cloudwatch_logger.CloudWatchLogger, callers and flusher *)
(*   SpecInput: DistributedWorker._download_input_file within _execute_job *)
(*   SpecPropose: propose_api_client.ProposeAPIClient.propose_fact         *)
(*   SpecBatch: BaseDataLoader.process_batch over one batch               *)
(*   SpecHeartbeat: DistributedWorker._heartbeat_loop across jobs          *)
(*   SpecGuarded: process_batch calling process_record through the breaker *)
(*   SpecConcurrent: two BaseDataLoader.run processes on the same file     *)
(***************************************************************************)
EXTENDS Integers, Sequences, FiniteSets, TLC

(***************************************************************************)
(* Bounds of the model.                                                    *)
(***************************************************************************)
NumWorkers == 2       \* workers racing for jobs (SpecJobs)
NumJobs == 1          \* jobs submitted to the racing workers (SpecJobs)
NumQueued == 2        \* jobs submitted in SpecCoordinator
MaxCheckpoints == 1   \* checkpoints a loader saves during one job
MaxTime == 5          \* the clock stops here
MaxThreshold == 3     \* failure_threshold is drawn from 1..MaxThreshold
MaxTimeout == 2       \* timeout is drawn from 1..MaxTimeout
MaxRetries == 2       \* max_retries is drawn from 0..MaxRetries
NumRecords == 1       \* records added to the dead letter queue
MaxMinutes == 7       \* the dead letter queue's clock stops here
MaxRecords == 3       \* the input file has 0..MaxRecords records
MaxBatchSize == 2     \* batch_size and checkpoint_interval are in 1..MaxBatchSize
MaxConnections == 3   \* the pool's max_connections is in 1..MaxConnections
MaxPoolRetries == 2   \* the pool's max_retries is in 0..MaxPoolRetries
MaxEvents == 3        \* events logged in one behaviour
MaxLogBatch == 2      \* the logger's batch_size is in 1..MaxLogBatch
MaxBatchLen == 2      \* records in the batch handed to process_batch
MaxHbJobs == 2        \* jobs the worker executes one after another (SpecHeartbeat)

VARIABLES
    \* ---- job dispatch ----
    jobs,          \* job_queue: job_id -> row (rows exist once inserted)
    claim_rows,    \* job_id -> workers whose claim UPDATE affected the row
    pc,            \* worker -> position in DistributedWorker.run
    resp,          \* worker -> response of POST /jobs/claim it is handling
    rowcount,      \* worker -> rows affected by its last claim UPDATE
    progress,      \* worker -> records processed by the running loader
    probe,         \* last response given to a client that is not a worker
    \* ---- circuit breaker ----
    state,             \* CircuitBreaker.state
    failure_count,     \* CircuitBreaker.failure_count
    last_failure_time, \* CircuitBreaker.last_failure_time (NULL or <<time>>)
    failure_threshold, \* constructor argument
    timeout,           \* constructor argument
    now,               \* datetime.now()
    consecutive,       \* failures of the wrapped callable in a row
    last_call,         \* what the last call() did
    \* ---- retry wrapper ----
    max_retries,       \* decorator argument
    delay,             \* decorator argument
    backoff,           \* decorator argument
    attempt,           \* loop variable of wrapper
    current_delay,     \* wrapper's current_delay
    last_exception,    \* wrapper's last_exception (NULL or <<e>>)
    raised,            \* exceptions func has raised, one per failed invocation
    slept,             \* durations passed to time.sleep, in order
    outcome,           \* how wrapper ended, or that it is still running
    \* ---- dead letter queue ----
    failed_records,    \* failed_records: record_id -> row
    clock,             \* NOW() / datetime.now(), in minutes
    rpc,               \* reprocessor -> position in reprocess_batch
    batch,             \* reprocessor -> records of its select still to do
    \* ---- loader ----
    sources,           \* sources rows for the input file's (source_type, hash)
    file_len,          \* number of records in the input file
    lpc,               \* position of the loader process in run
    limit,             \* run argument (NULL or <<n>>)
    batch_size,        \* run argument
    start_from,        \* run's start_from (argument, then resume position)
    checkpoint_interval, \* self.checkpoint_interval
    source_id,         \* self.source_id (NULL or <<index into sources>>)
    stats,             \* self.stats
    last_checkpoint,   \* self.last_checkpoint
    processed_count,   \* run's processed_count
    resumed_at,        \* records_processed found by register_source, or NULL
    touched,           \* indices of the records this run handed to process_batch
    result,            \* what the last run returned
    run_caller,        \* who called run last: none, main or worker
    job_checkpoint,    \* checkpoint field of the worker's job row
    \* ---- connection pool ----
    max_connections,   \* constructor argument (maxconn of the psycopg2 pool)
    pool_max_retries,  \* ConnectionPool.max_retries
    checked_out,       \* slots the psycopg2 pool holds as in use
    ppc,               \* position of the caller in get_connection
    auto_retry,        \* get_connection argument
    conn,              \* get_connection's conn: NULL or <<"conn">>
    retries,           \* get_connection's retries
    thrown,            \* the with body has raised into the generator
    checked_out_before, \* checked_out when the with statement was entered
    call_end,          \* how the last with statement ended
    \* ---- CloudWatch logger ----
    cw_batch_size,     \* CloudWatchLogger.batch_size
    buffer,            \* CloudWatchLogger.buffer (deque), events by number
    buffer_lock,       \* NULL or <<thread>> holding buffer_lock
    should_stop,       \* CloudWatchLogger.should_stop
    tpc,               \* position of each thread in the logger's code
    ctx,               \* the method that called _flush, per thread
    events,            \* _flush's events, per thread
    logged,            \* events logged so far
    puts,              \* the batches put_log_events accepted, in order
    rejected,          \* a put_log_events call has raised
    logged_at_close,   \* logged when close() was called
    \* ---- input acquisition ----
    input_config,      \* keys present in config['input']
    local_exists,      \* the local file named by file_path exists
    temp_exists,       \* a temp file created by the download exists
    ipc,               \* position in _execute_job
    file_path,         \* _execute_job's file_path: NULL, <<"local">> or <<"temp">>
    temp_file_path,    \* _execute_job's temp_file_path
    job_error,         \* NULL or the exception leaving _execute_job
    \* ---- propose API client ----
    propose_path,      \* how the propose_fact call goes
    raw_result,        \* the row fetched, as _parse_response sees it
    response,          \* NULL or <<the ProposeResponse returned>>
    \* ---- process_batch ----
    raw_batch,         \* process_batch's batch: what happens to each record
    index,             \* position of the for loop in the batch
    attempted,         \* records the loop body was entered for
    results,           \* process_batch's results (their status)
    bstats,            \* self.stats during process_batch
    bpc,               \* loop, returned or raised
    \* ---- heartbeat thread ----
    current_job_id,    \* DistributedWorker.current_job_id (NULL or <<job>>)
    heartbeat_thread,  \* DistributedWorker.heartbeat_thread (the last one started)
    epc,               \* position of the worker in _execute_job
    job_seq,           \* jobs started so far
    hpc,               \* thread -> position in _heartbeat_loop
    heartbeats,        \* POSTs to /jobs/{id}/heartbeat: thread and id
    \* ---- two loader processes on one file ----
    cr_file_len,       \* records in the file both processes read
    source_row,        \* the sources row of the file (NULL or <<row>>)
    cr_pc,             \* process -> position in run
    cr_start_from,     \* process -> start_from after register_source
    cr_processed_count,\* process -> processed_count
    cr_last_checkpoint,\* process -> self.last_checkpoint
    processed_by       \* record index -> processes that processed it

jobVars == <<jobs, claim_rows, pc, resp, rowcount, progress, probe>>
cbVars == <<state, failure_count, last_failure_time, failure_threshold,
            timeout, now, consecutive, last_call>>
retryVars == <<max_retries, delay, backoff, attempt, current_delay,
               last_exception, raised, slept, outcome>>
dlqVars == <<failed_records, clock, rpc, batch>>
ldVars == <<sources, file_len, lpc, limit, batch_size, start_from,
            checkpoint_interval, source_id, stats, last_checkpoint,
            processed_count, resumed_at, touched, result, run_caller,
            job_checkpoint>>
poolVars == <<max_connections, pool_max_retries, checked_out, ppc,
              auto_retry, conn, retries, thrown, checked_out_before, call_end>>
cwVars == <<cw_batch_size, buffer, buffer_lock, should_stop, tpc, ctx, events,
            logged, puts, rejected, logged_at_close>>
inVars == <<input_config, local_exists, temp_exists, ipc, file_path,
            temp_file_path, job_error>>
prVars == <<propose_path, raw_result, response>>
pbVars == <<raw_batch, index, attempted, results, bstats, bpc>>
hbVars == <<current_job_id, heartbeat_thread, epc, job_seq, hpc, heartbeats>>
crVars == <<cr_file_len, source_row, cr_pc, cr_start_from, cr_processed_count,
           cr_last_checkpoint, processed_by>>
otherVars ==
    <<retryVars, dlqVars, ldVars, poolVars, cwVars, inVars, prVars, pbVars,
      hbVars, crVars>>
vars == <<jobVars, cbVars, otherVars>>

\* What the workers and the queue consumer leave alone.
notWorker == <<probe, cbVars, otherVars>>

\* What the circuit breaker leaves alone.
notCB == <<jobVars, otherVars>>

\* What the retry wrapper leaves alone.
notRetry ==
    <<jobVars, cbVars, dlqVars, ldVars, poolVars, cwVars, inVars, prVars,
      pbVars, hbVars, crVars>>

\* What the dead letter queue leaves alone.
notDLQ ==
    <<jobVars, cbVars, retryVars, ldVars, poolVars, cwVars, inVars, prVars,
      pbVars, hbVars, crVars>>

\* What the loader leaves alone.
notLoader ==
    <<jobVars, cbVars, retryVars, dlqVars, poolVars, cwVars, inVars, prVars,
      pbVars, hbVars, crVars>>

\* What the connection pool leaves alone.
notPool ==
    <<jobVars, cbVars, retryVars, dlqVars, ldVars, cwVars, inVars, prVars,
      pbVars, hbVars, crVars>>

\* What the CloudWatch logger leaves alone.
notTelemetry ==
    <<jobVars, cbVars, retryVars, dlqVars, ldVars, poolVars, inVars, prVars,
      pbVars, hbVars, crVars>>

\* What input acquisition leaves alone.
notInput ==
    <<jobVars, cbVars, retryVars, dlqVars, ldVars, poolVars, cwVars, prVars,
      pbVars, hbVars, crVars>>

\* What the propose API client leaves alone.
notPropose ==
    <<jobVars, cbVars, retryVars, dlqVars, ldVars, poolVars, cwVars, inVars,
      pbVars, hbVars, crVars>>

\* What process_batch leaves alone.
notBatch ==
    <<jobVars, cbVars, retryVars, dlqVars, ldVars, poolVars, cwVars, inVars,
      prVars, hbVars, crVars>>

\* What the heartbeat threads leave alone.
notHeartbeat ==
    <<jobVars, cbVars, retryVars, dlqVars, ldVars, poolVars, cwVars, inVars,
      prVars, pbVars, crVars>>

\* What the two loader processes leave alone.
notConcurrent ==
    <<jobVars, cbVars, retryVars, dlqVars, ldVars, poolVars, cwVars, inVars,
      prVars, pbVars, hbVars>>

\* SQL NULL / Python None.  Values that may be NULL are tuples: <<>> or <<v>>.
NULL == <<>>

(***************************************************************************)
(*                          J O B   D I S P A T C H                        *)
(***************************************************************************)
Workers == {<<"worker", i>> : i \in 1..NumWorkers}
JobTypes == {"iowa_business", "iowa_asbestos"}
Statuses == {"pending", "claimed", "running", "completed", "failed"}

\* DistributedWorker.__init__: capabilities or the default list.  The first
\* worker runs with the default, the others handle iowa_business only.
capabilities(w) == IF w[2] = 1 THEN JobTypes ELSE {"iowa_business"}

\* The rows of job_queue.
Rows == DOMAIN jobs

\* on_queue: INSERT INTO job_queue (... 'pending', NOW(), NOW()).
\* created_at is the insert's NOW(): later inserts carry later times.
NewRow(t) ==
    [status |-> "pending", job_type |-> t, created_at |-> Cardinality(Rows) + 1,
     worker_id |-> NULL, checkpoint |-> NULL, error_message |-> NULL]

\* Job ids are opaque: the rows are numbered in the order they are inserted.
on_queue(j, t) ==
    /\ j \notin Rows
    /\ j = Cardinality(Rows) + 1
    /\ jobs' = jobs @@ (j :> NewRow(t))
    /\ claim_rows' = claim_rows @@ (j :> {})
    /\ UNCHANGED <<pc, resp, rowcount, progress, notWorker>>

\* handle_claim_job's SELECT: pending rows whose job_type = ANY(capabilities),
\* ORDER BY created_at ASC LIMIT 1.
PendingFor(caps) ==
    {j \in Rows : jobs[j].status = "pending" /\ jobs[j].job_type \in caps}

Oldest_descending(S) ==
    {j \in S : \A k \in S : jobs[j].created_at >= jobs[k].created_at}

Oldest(S) == {j \in S : \A k \in S : jobs[j].created_at <= jobs[k].created_at}

\* The responses handle_claim_job may give to a request body: 400 without a
\* worker_id, 204 without a candidate, else 200 with the candidate and the
\* claim instruction (its params are [worker_id, job_id]).
handle_claim_job(body) ==
    IF body.worker_id = NULL
    THEN {[status |-> 400]}
    ELSE IF PendingFor(body.capabilities) = {}
    THEN {[status |-> 204]}
    ELSE {[status |-> 200, job_id |-> j, job_type |-> jobs[j].job_type,
           claim_instruction |-> [params |-> <<body.worker_id, j>>]] :
             j \in Oldest(PendingFor(body.capabilities))}

NoResponse == [status |-> 0]

\* The body DistributedWorker._claim_job posts.
ClaimBody(w) == [worker_id |-> w, capabilities |-> capabilities(w)]

\* Bodies another HTTP client may post to /jobs/claim: without a worker_id,
\* with no capabilities, with one capability.
ExternalBodies ==
    {[worker_id |-> NULL, capabilities |-> JobTypes],
     [worker_id |-> <<"client", 0>>, capabilities |-> {}],
     [worker_id |-> <<"client", 0>>, capabilities |-> {"iowa_asbestos"}]}

\* What a worker keeps between two jobs.
Idle(w) ==
    /\ resp' = [resp EXCEPT ![w] = NoResponse]
    /\ rowcount' = [rowcount EXCEPT ![w] = 0]
    /\ progress' = [progress EXCEPT ![w] = 0]

ClaimRequest_executes_update(w) ==
    /\ pc[w] = "poll"
    /\ \E r \in handle_claim_job(ClaimBody(w)) :
          /\ resp' = [resp EXCEPT ![w] = IF r.status = 200 THEN r
                                       ELSE NoResponse]
          /\ pc' = [pc EXCEPT ![w] = IF r.status = 200 THEN "responded"
                                     ELSE "poll"]
          /\ jobs' = IF r.status = 200
                     THEN [jobs EXCEPT ![r.job_id].status = "claimed",
                                       ![r.job_id].worker_id = w]
                     ELSE jobs
    /\ UNCHANGED <<claim_rows, rowcount, progress, notWorker>>

\* _claim_job: requests.post(.../jobs/claim), answered by handle_claim_job,
\* which only reads job_queue.  On 204 (or any status but 200) _claim_job
\* returns None: the worker keeps no job and run sleeps 30 s before polling
\* again.
ClaimRequest(w) ==
    /\ pc[w] = "poll"
    /\ \E r \in handle_claim_job(ClaimBody(w)) :
          /\ resp' = [resp EXCEPT ![w] = IF r.status = 200 THEN r
                                       ELSE NoResponse]
          /\ pc' = [pc EXCEPT ![w] = IF r.status = 200 THEN "responded"
                                     ELSE "poll"]
    /\ UNCHANGED <<jobs, claim_rows, rowcount, progress, notWorker>>

\* POST /jobs/claim from a client that is not a worker.
ExternalClaim(body) ==
    /\ \E r \in handle_claim_job(body) : probe' = r
    /\ UNCHANGED <<jobs, claim_rows, pc, resp, rowcount, progress, cbVars,
                   otherVars>>

\* The claim instruction as the store executes it:
\*   UPDATE job_queue SET status = 'claimed', worker_id = $1, ...
\*   WHERE job_id = $2 AND status = 'pending'
ClaimMatches_unguarded(j) == j \in Rows

ClaimMatches(j) == j \in Rows /\ jobs[j].status = "pending"

ClaimUpdate(wid, j) ==
    IF ClaimMatches(j)
    THEN [jobs EXCEPT ![j].status = "claimed", ![j].worker_id = wid]
    ELSE jobs

\* _execute_claim: runs the instruction and commits; the cursor's rowcount is
\* not read.  _claim_job returns job_data and run goes on to _execute_job.
ExecuteClaim(w) ==
    /\ pc[w] = "responded"
    /\ LET wid == resp[w].claim_instruction.params[1]
           j == resp[w].claim_instruction.params[2]
           n == IF ClaimMatches(j) THEN 1 ELSE 0
       IN /\ jobs' = ClaimUpdate(wid, j)
          /\ rowcount' = [rowcount EXCEPT ![w] = n]
          /\ claim_rows' = IF n = 1
                           THEN [claim_rows EXCEPT ![j] = @ \cup {w}]
                           ELSE claim_rows
    /\ pc' = [pc EXCEPT ![w] = "execute"]
    /\ UNCHANGED <<resp, progress, notWorker>>

\* _execute_claim raises: rollback, re-raise; _claim_job logs and returns None.
ExecuteClaimRaises(w) ==
    /\ pc[w] = "responded"
    /\ pc' = [pc EXCEPT ![w] = "poll"]
    /\ Idle(w)
    /\ UNCHANGED <<jobs, claim_rows, notWorker>>

\* The job a worker is executing (job['job_id'] of the response).
job_id(w) == resp[w].job_id

UpdateStatus_clears_worker(j, s, msg) ==
    IF s = "failed"
    THEN [jobs EXCEPT ![j].status = s, ![j].error_message = msg,
                      ![j].worker_id = NULL]
    ELSE IF s = "completed"
    THEN [jobs EXCEPT ![j].status = s, ![j].worker_id = NULL]
    ELSE [jobs EXCEPT ![j].status = s]

\* _update_job_status: UPDATE job_queue SET status = ... WHERE job_id = %s
UpdateStatus(j, s, msg) ==
    IF s = "failed"
    THEN [jobs EXCEPT ![j].status = s, ![j].error_message = msg]
    ELSE [jobs EXCEPT ![j].status = s]

\* _execute_job: self._update_job_status(job_id, 'running')
MarkRunning(w) ==
    /\ pc[w] = "execute"
    /\ jobs' = UpdateStatus(job_id(w), "running", NULL)
    /\ pc' = [pc EXCEPT ![w] = "loading"]
    /\ rowcount' = [rowcount EXCEPT ![w] = 0]
    /\ UNCHANGED <<claim_rows, resp, progress, notWorker>>

\* checkpoint_callback -> _save_checkpoint:
\*   UPDATE job_queue SET checkpoint = %s WHERE job_id = %s
SaveCheckpoint(w) ==
    /\ pc[w] = "loading"
    /\ progress[w] < MaxCheckpoints
    /\ progress' = [progress EXCEPT ![w] = @ + 1]
    /\ jobs' = [jobs EXCEPT ![job_id(w)].checkpoint = <<progress[w] + 1>>]
    /\ UNCHANGED <<claim_rows, pc, resp, rowcount, notWorker>>

\* loader.run returns; _complete_job; finally; next iteration of run.
CompleteJob(w) ==
    /\ pc[w] = "loading"
    /\ jobs' = UpdateStatus(job_id(w), "completed", NULL)
    /\ pc' = [pc EXCEPT ![w] = "poll"]
    /\ Idle(w)
    /\ UNCHANGED <<claim_rows, notWorker>>

\* The steps of _execute_job that may raise with self.db_conn left usable:
\* the steps before the loader has run (_download_input_file, and
\* _load_loader_class, which run's handler treats alike: only the text of
\* str(e) differs) and loader.run.
Raising(w) ==
    IF progress[w] = 0
    THEN {"download_input", "loader_run"}
    ELSE {"loader_run"}

\* A step of _execute_job raises e; run: except Exception as e:
\* self._fail_job(job['job_id'], str(e)); next iteration.
FailJob(w, e) ==
    /\ pc[w] = "loading"
    /\ e \in Raising(w)
    /\ jobs' = UpdateStatus(job_id(w), "failed", <<e>>)
    /\ pc' = [pc EXCEPT ![w] = "poll"]
    /\ Idle(w)
    /\ UNCHANGED <<claim_rows, notWorker>>

\* A statement on self.db_conn raises (in _update_job_status, or in a
\* callback the loader runs on the shared connection).  Nothing rolls back,
\* so the connection stays in the failed transaction and _fail_job's UPDATE
\* raises too, inside run's except block: the exception leaves run through
\* its finally (cleanup closes db_conn) and the worker ends.
StatementRaises(w) ==
    /\ pc[w] \in {"execute", "loading"}
    /\ pc' = [pc EXCEPT ![w] = "stopped"]
    /\ UNCHANGED <<jobs, claim_rows, resp, rowcount, progress, notWorker>>

JobsInit ==
    /\ jobs = <<>>
    /\ claim_rows = <<>>
    /\ pc = [w \in Workers |-> "poll"]
    /\ resp = [w \in Workers |-> NoResponse]
    /\ rowcount = [w \in Workers |-> 0]
    /\ progress = [w \in Workers |-> 0]
    /\ probe = NoResponse

WorkerStep(w) ==
    \/ ClaimRequest(w)
    \/ ExecuteClaim(w)
    \/ ExecuteClaimRaises(w)
    \/ MarkRunning(w)
    \/ SaveCheckpoint(w)
    \/ CompleteJob(w)
    \/ \E e \in Raising(w) : FailJob(w, e)
    \/ StatementRaises(w)

\* A fleet of workers racing for the jobs of the queue.
JobsNext ==
    \/ \E j \in 1..NumJobs, t \in JobTypes : on_queue(j, t)
    \/ \E w \in Workers : WorkerStep(w)

\* The coordinator serving one worker and clients that are not workers.
CoordinatorNext ==
    \/ \E j \in 1..NumQueued, t \in JobTypes : on_queue(j, t)
    \/ WorkerStep(<<"worker", 1>>)
    \/ \E body \in ExternalBodies : ExternalClaim(body)

(***************************************************************************)
(*                       C I R C U I T   B R E A K E R                     *)
(***************************************************************************)
NoCall == [result |-> "none", invoked |-> FALSE, attempted_in |-> "none"]

\* CircuitBreaker.__init__, for every failure_threshold and timeout in bounds
CBInit ==
    /\ state = "CLOSED"
    /\ failure_count = 0
    /\ last_failure_time = NULL
    /\ failure_threshold \in 1..MaxThreshold
    /\ timeout \in 1..MaxTimeout
    /\ now = 0
    /\ consecutive = 0
    /\ last_call = NoCall

\* The breaker of a loader that is not making calls.
CBIdle ==
    /\ state = "CLOSED"
    /\ failure_count = 0
    /\ last_failure_time = NULL
    /\ failure_threshold = 1
    /\ timeout = 1
    /\ now = 0
    /\ consecutive = 0
    /\ last_call = NoCall

should_attempt_reset_at_once == TRUE

\* _should_attempt_reset:
\*   datetime.now() - self.last_failure_time > timedelta(seconds=self.timeout)
should_attempt_reset ==
    IF last_failure_time = NULL THEN TRUE
    ELSE now - last_failure_time[1] > timeout

\* The state in which call() invokes func: OPEN becomes HALF_OPEN once
\* _should_attempt_reset holds.
AttemptState == IF state = "OPEN" THEN "HALF_OPEN" ELSE state

\* call() with the circuit open and the timeout not elapsed: raises
\* "Circuit breaker is OPEN" without invoking func.
call_rejected ==
    /\ state = "OPEN"
    /\ ~should_attempt_reset
    /\ last_call' = [result |-> "circuit_open", invoked |-> FALSE,
                     attempted_in |-> "OPEN"]
    /\ UNCHANGED <<state, failure_count, last_failure_time, failure_threshold,
                   timeout, now, consecutive>>

\* A call of a breaker used on its own that is rejected.
CallRejected == call_rejected /\ UNCHANGED notCB

\* _on_success: only a HALF_OPEN breaker closes and resets failure_count.
on_success_state(s) == IF s = "HALF_OPEN" THEN "CLOSED" ELSE s
on_success_count_kept(s) == failure_count

on_success_count(s) == IF s = "HALF_OPEN" THEN 0 ELSE failure_count

\* call() invokes func and func returns: _on_success
call_returns ==
    /\ state = "OPEN" => should_attempt_reset
    /\ state' = on_success_state(AttemptState)
    /\ failure_count' = on_success_count(AttemptState)
    /\ consecutive' = 0
    /\ last_call' = [result |-> "returned", invoked |-> TRUE,
                     attempted_in |-> AttemptState]
    /\ UNCHANGED <<last_failure_time, failure_threshold, timeout, now>>

\* A call of a breaker used on its own whose func returns.
CallSucceeds == call_returns /\ UNCHANGED notCB

\* _on_failure: count, stamp the time, open at the threshold.
on_failure_state(s) ==
    IF failure_count + 1 >= failure_threshold THEN "OPEN" ELSE s

\* call() invokes func and func raises: _on_failure, re-raise
call_raises ==
    /\ state = "OPEN" => should_attempt_reset
    /\ failure_count' = failure_count + 1
    /\ last_failure_time' = <<now>>
    /\ state' = on_failure_state(AttemptState)
    /\ consecutive' = consecutive + 1
    /\ last_call' = [result |-> "raised", invoked |-> TRUE,
                     attempted_in |-> AttemptState]
    /\ UNCHANGED <<failure_threshold, timeout, now>>

\* A call of a breaker used on its own whose func raises.
CallFails == call_raises /\ UNCHANGED notCB

\* reset(): manual reset
Reset ==
    /\ state' = "CLOSED"
    /\ failure_count' = 0
    /\ last_failure_time' = NULL
    /\ consecutive' = 0
    /\ last_call' = NoCall
    /\ UNCHANGED <<failure_threshold, timeout, now, notCB>>

\* Time passes between calls.
Tick ==
    /\ now < MaxTime
    /\ now' = now + 1
    /\ UNCHANGED <<state, failure_count, last_failure_time, failure_threshold,
                   timeout, consecutive, last_call, notCB>>

Call == CallRejected \/ CallSucceeds \/ CallFails

CBNext == CallRejected \/ CallSucceeds \/ CallFails \/ Reset \/ Tick

(***************************************************************************)
(* retry_utils.retry_on_exception                                          *)
(***************************************************************************)
\* exceptions=(...) given to the decorator, and an exception outside it.
Matching == {"OperationalError", "Timeout"}
NonMatching == {"ValueError"}

\* delay and backoff given to the decorator.
Delays == {1, 2}
Backoffs == {1, 2}

Running == [kind |-> "running", value |-> NULL]

\* wrapper entered: current_delay = delay, last_exception = None, and the
\* for loop at its first attempt.
RetryInit ==
    /\ max_retries \in 0..MaxRetries
    /\ delay \in Delays
    /\ backoff \in Backoffs
    /\ attempt = 0
    /\ current_delay = delay
    /\ last_exception = NULL
    /\ raised = <<>>
    /\ slept = <<>>
    /\ outcome = Running

\* No decorated function is being called.
RetryIdle ==
    /\ max_retries = 0
    /\ delay = 1
    /\ backoff = 1
    /\ attempt = 0
    /\ current_delay = 1
    /\ last_exception = NULL
    /\ raised = <<>>
    /\ slept = <<>>
    /\ outcome = Running

\* Invocations of func made so far.
invocations == Len(raised) + (IF outcome.kind = "returned" THEN 1 ELSE 0)

may_retry_once_more == attempt <= max_retries

\* if attempt < max_retries
may_retry == attempt < max_retries

\* return func(*args, **kwargs), func returning.
RetryReturns ==
    /\ outcome = Running
    /\ outcome' = [kind |-> "returned", value |-> <<"result", Len(raised) + 1>>]
    /\ UNCHANGED <<max_retries, delay, backoff, attempt, current_delay,
                   last_exception, raised, slept, notRetry>>

\* func raises an exception of the configured kinds: sleep and go round the
\* loop again, or leave the loop and raise last_exception.
RetryCatches(e) ==
    /\ outcome = Running
    /\ e \in Matching
    /\ raised' = Append(raised, e)
    /\ last_exception' = <<e>>
    /\ IF may_retry
       THEN /\ slept' = Append(slept, current_delay)
            /\ current_delay' = current_delay * backoff
            /\ attempt' = attempt + 1
            /\ outcome' = outcome
       ELSE /\ outcome' = [kind |-> "raised", value |-> <<e>>]
            /\ UNCHANGED <<slept, current_delay, attempt>>
    /\ UNCHANGED <<max_retries, delay, backoff, notRetry>>

\* func raises an exception the except clause does not name.
RetryPropagates(e) ==
    /\ outcome = Running
    /\ e \in NonMatching
    /\ raised' = Append(raised, e)
    /\ outcome' = [kind |-> "raised", value |-> <<e>>]
    /\ UNCHANGED <<max_retries, delay, backoff, attempt, current_delay,
                   last_exception, slept, notRetry>>

RetryNext ==
    \/ RetryReturns
    \/ \E e \in Matching : RetryCatches(e)
    \/ \E e \in NonMatching : RetryPropagates(e)

(***************************************************************************)
(* dlq_handler: DeadLetterQueue and DLQReprocessor                         *)
(***************************************************************************)
\* DLQReprocessor.max_retries, passed to get_failed_records as max_attempts.
MAX_RETRIES == 3

\* reprocess_batch: older_than_minutes=5
older_than_minutes == 5

\* Processes running reprocess_batch on the same table.
Reprocessors == {<<"reprocessor", "a">>, <<"reprocessor", "b">>}

Records == DOMAIN failed_records

\* add_failed_record: INSERT with attempt_count DEFAULT 1, created_at NOW(),
\* last_attempt_at NULL, reprocessed DEFAULT FALSE.
add_failed_record(r) ==
    /\ r \notin Records
    /\ r = Cardinality(Records) + 1
    /\ failed_records' = failed_records @@
          (r :> [attempt_count |-> 1, created_at |-> clock,
                 last_attempt_at |-> NULL, reprocessed |-> FALSE])
    /\ UNCHANGED <<clock, rpc, batch, notDLQ>>

\* The WHERE clause of get_failed_records, cutoff_time = now - older_than.
Selectable(r, max_attempts, older_than) ==
    /\ failed_records[r].reprocessed = FALSE
    /\ failed_records[r].attempt_count < max_attempts
    /\ \/ failed_records[r].last_attempt_at = NULL
       \/ failed_records[r].last_attempt_at[1] < clock - older_than

\* Record ids in the order ORDER BY created_at (ids are in insertion order).
RECURSIVE Ordered(_)
Ordered(S) ==
    IF S = {} THEN <<>>
    ELSE LET r == CHOOSE x \in S : \A y \in S : x <= y
         IN <<r>> \o Ordered(S \ {r})

\* get_failed_records: the FailedRecord objects of the rows selected.
get_failed_records(max_attempts, older_than) ==
    LET ids == Ordered({r \in Records : Selectable(r, max_attempts, older_than)})
    IN [i \in 1..Len(ids) |->
           [record_id |-> ids[i],
            attempt_count |-> failed_records[ids[i]].attempt_count]]

\* reprocess_batch up to the for loop: the select, and the early return
\* when it is empty.
SelectBatch(p) ==
    /\ rpc[p] = "idle"
    /\ LET records == get_failed_records(MAX_RETRIES, older_than_minutes)
       IN /\ batch' = [batch EXCEPT ![p] = records]
          /\ rpc' = [rpc EXCEPT ![p] = IF records = <<>> THEN "idle"
                                       ELSE "marking"]
    /\ UNCHANGED <<failed_records, clock, notDLQ>>

\* reprocess_record: self.dlq.mark_reprocessing(failed_record.record_id)
MarkReprocessing(p) ==
    /\ rpc[p] = "marking"
    /\ LET r == batch[p][1].record_id
       IN failed_records' =
             [failed_records EXCEPT
                 ![r].last_attempt_at = <<clock>>,
                 ![r].attempt_count = failed_records[r].attempt_count + 1]
    /\ rpc' = [rpc EXCEPT ![p] = "processing"]
    /\ UNCHANGED <<clock, batch, notDLQ>>

\* The for loop of reprocess_batch moving to its next record, or ending.
NextRecord(p) ==
    /\ batch' = [batch EXCEPT ![p] = Tail(batch[p])]
    /\ rpc' = [rpc EXCEPT ![p] = IF Len(batch[p]) = 1 THEN "idle"
                                 ELSE "marking"]

\* reprocess_record: the loader parsed, validated and processed the record
\* and every result succeeded: mark_reprocessed(success=True).
ReprocessSucceeds(p) ==
    /\ rpc[p] = "processing"
    /\ failed_records' =
          [failed_records EXCEPT ![batch[p][1].record_id].reprocessed = TRUE]
    /\ NextRecord(p)
    /\ UNCHANGED <<clock, notDLQ>>

\* reprocess_record: the loader raised, or a result failed:
\* mark_reprocessed(success=False) writes reprocess_result only.
ReprocessFails(p) ==
    /\ rpc[p] = "processing"
    /\ NextRecord(p)
    /\ UNCHANGED <<failed_records, clock, notDLQ>>

\* A minute passes.
Minute ==
    /\ clock < MaxMinutes
    /\ clock' = clock + 1
    /\ UNCHANGED <<failed_records, rpc, batch, notDLQ>>

DLQInit ==
    /\ failed_records = <<>>
    /\ clock = 0
    /\ rpc = [p \in Reprocessors |-> "idle"]
    /\ batch = [p \in Reprocessors |-> <<>>]

DLQNext ==
    \/ \E r \in 1..NumRecords : add_failed_record(r)
    \/ \E p \in Reprocessors : SelectBatch(p)
    \/ \E p \in Reprocessors : MarkReprocessing(p)
    \/ \E p \in Reprocessors : ReprocessSucceeds(p)
    \/ \E p \in Reprocessors : ReprocessFails(p)
    \/ Minute

(***************************************************************************)
(* iowa_business_loader: BaseDataLoader.run on one input file              *)
(***************************************************************************)
\* init_statistics
init_statistics ==
    [total_processed |-> 0, successful |-> 0, failed |-> 0, skipped |-> 0]

\* register_source: INSERT INTO sources (...) VALUES (..., 'processing')
NewSource ==
    [status |-> "processing", records_processed |-> 0, records_imported |-> 0,
     records_failed |-> 0, records_skipped |-> 0]

LoaderInit ==
    /\ sources = <<>>
    /\ file_len \in 0..MaxRecords
    /\ lpc = "idle"
    /\ limit = NULL
    /\ batch_size = 1
    /\ start_from = 0
    /\ checkpoint_interval = 1
    /\ source_id = NULL
    /\ stats = init_statistics
    /\ last_checkpoint = 0
    /\ processed_count = 0
    /\ resumed_at = NULL
    /\ touched = {}
    /\ result = "none"
    /\ run_caller = "none"
    /\ job_checkpoint = NULL

\* No loader is run.
LoaderIdle == LoaderInit /\ file_len = 0

already_processed_never(row) == FALSE

\* register_source: if result['status'] == 'completed': return None
already_processed(row) == row.status = "completed"

resume_position_ignored(n, sf) == sf

\* run: if self.stats['total_processed'] > 0: start_from = that
resume_position(n, sf) == IF n > 0 THEN n ELSE sf

\* A new loader object and run up to the for loop: register_source finds the
\* file's row (fetchone) and returns None, or resumes it, or inserts one.
StartRun(lim, bs, sf, ci) ==
    /\ lpc = "idle"
    /\ run_caller' = "main"
    /\ limit' = lim
    /\ batch_size' = bs
    /\ checkpoint_interval' = ci
    /\ last_checkpoint' = 0
    /\ processed_count' = 0
    /\ touched' = {}
    /\ IF sources # <<>> /\ already_processed(sources[1])
       THEN /\ result' = "already_processed"
            /\ lpc' = "idle"
            /\ source_id' = NULL
            /\ stats' = init_statistics
            /\ start_from' = sf
            /\ resumed_at' = NULL
            /\ sources' = sources
       ELSE IF sources # <<>>
       THEN /\ source_id' = <<1>>
            /\ stats' = [init_statistics EXCEPT
                            !.total_processed = sources[1].records_processed]
            /\ start_from' = resume_position(sources[1].records_processed, sf)
            /\ resumed_at' = <<sources[1].records_processed>>
            /\ sources' = sources
            /\ result' = "none"
            /\ lpc' = "loop"
       ELSE /\ sources' = Append(sources, NewSource)
            /\ source_id' = <<Len(sources) + 1>>
            /\ stats' = init_statistics
            /\ start_from' = resume_position(0, sf)
            /\ resumed_at' = NULL
            /\ result' = "none"
            /\ lpc' = "loop"
    /\ UNCHANGED <<file_len, job_checkpoint, notLoader>>

\* save_checkpoint(position) with the statistics st.
Checkpointed(position, st) ==
    [sources EXCEPT ![source_id[1]].records_processed = position,
                    ![source_id[1]].records_imported = st.successful,
                    ![source_id[1]].records_failed = st.failed,
                    ![source_id[1]].records_skipped = st.skipped]

\* The reader's position in the file: records skipped plus records yielded.
Position == start_from + processed_count

\* Length of the next batch read_in_batches yields (0: the file is exhausted).
NextBatchLen ==
    IF Position >= file_len THEN 0
    ELSE IF file_len - Position < batch_size THEN file_len - Position
    ELSE batch_size

\* run: if limit and processed_count >= limit
limit_reached(n) == limit # NULL /\ n >= limit[1]

\* One turn of run's for loop: process_batch on the next batch (ok records
\* succeed, bad fail, the rest are skipped), the checkpoint when it is due,
\* and the limit check.
ProcessBatch(ok, bad) ==
    /\ lpc = "loop"
    /\ NextBatchLen > 0
    /\ ok + bad <= NextBatchLen
    /\ LET n == NextBatchLen
           st == [stats EXCEPT !.successful = @ + ok,
                               !.failed = @ + bad,
                               !.skipped = @ + (n - ok - bad),
                               !.total_processed = @ + n]
           count == processed_count + n
           due == count - last_checkpoint >= checkpoint_interval
       IN /\ stats' = st
          /\ processed_count' = count
          /\ touched' = touched \cup (Position..(Position + n - 1))
          /\ sources' = IF due THEN Checkpointed(start_from + count, st)
                        ELSE sources
          /\ last_checkpoint' = IF due THEN start_from + count
                                ELSE last_checkpoint
          /\ lpc' = IF limit_reached(count) THEN "finish" ELSE "loop"
    /\ UNCHANGED <<file_len, limit, batch_size, start_from,
                   checkpoint_interval, source_id, resumed_at, result,
                   run_caller, job_checkpoint,
                   notLoader>>

\* After the loop: the final checkpoint, mark_complete and the return.
FinishRun ==
    /\ lpc = "finish" \/ (lpc = "loop" /\ NextBatchLen = 0)
    /\ sources' = [Checkpointed(Position, stats) EXCEPT
                      ![source_id[1]].status = "completed"]
    /\ last_checkpoint' = Position
    /\ result' = "completed"
    /\ lpc' = "idle"
    /\ UNCHANGED <<file_len, limit, batch_size, start_from,
                   checkpoint_interval, source_id, stats, processed_count,
                   resumed_at, touched, run_caller, job_checkpoint,
                   notLoader>>

\* An exception leaves the loop (reading the file fails): mark_failed, raise.
RunRaises ==
    /\ lpc = "loop"
    /\ sources' = [sources EXCEPT ![source_id[1]].status = "failed"]
    /\ result' = "raised"
    /\ lpc' = "idle"
    /\ UNCHANGED <<file_len, limit, batch_size, start_from,
                   checkpoint_interval, source_id, stats, last_checkpoint,
                   processed_count, resumed_at, touched, run_caller, job_checkpoint,
                   notLoader>>

\* The loader process is killed inside the loop; the row stays as it is.
RunKilled ==
    /\ lpc = "loop"
    /\ result' = "killed"
    /\ lpc' = "idle"
    /\ UNCHANGED <<sources, file_len, limit, batch_size, start_from,
                   checkpoint_interval, source_id, stats, last_checkpoint,
                   processed_count, resumed_at, touched, run_caller, job_checkpoint,
                   notLoader>>

\* The parameters of BaseDataLoader.run.
run_parameters == {"file_path", "limit", "batch_size", "start_from"}

\* The keywords of the call loader.run(...) in _execute_job.
worker_keywords ==
    {"file_path", "limit", "batch_size", "checkpoint_callback",
     "log_callback", "error_callback"}

\* Python binds a call's keywords to the parameters before the body runs;
\* a keyword that names no parameter raises TypeError.
call_binds(keywords, parameters) == keywords \subseteq parameters

\* _execute_job calls loader.run with its three callbacks.
RunFromWorker ==
    /\ lpc = "idle"
    /\ run_caller' = "worker"
    /\ IF call_binds(worker_keywords, run_parameters)
       THEN /\ result' = "none"
            /\ lpc' = "loop"
       ELSE /\ result' = "TypeError"
            /\ lpc' = "idle"
    /\ UNCHANGED <<sources, file_len, limit, batch_size, start_from,
                   checkpoint_interval, source_id, stats, last_checkpoint,
                   processed_count, resumed_at, touched, job_checkpoint,
                   notLoader>>

\* limit values given to run: none, or a number of records.
Limits == {NULL} \cup {<<n>> : n \in 1..MaxRecords}

LoaderNext ==
    \/ \E lim \in Limits, bs \in 1..MaxBatchSize, sf \in 0..1,
          ci \in 1..MaxBatchSize : StartRun(lim, bs, sf, ci)
    \/ \E ok \in 0..MaxBatchSize, bad \in 0..MaxBatchSize : ProcessBatch(ok, bad)
    \/ FinishRun
    \/ RunRaises
    \/ RunKilled
    \/ RunFromWorker

(***************************************************************************)
(* connection_pool.ConnectionPool.get_connection                           *)
(***************************************************************************)
\* ConnectionPool.__init__: a ThreadedConnectionPool with no slot in use.
PoolInit ==
    /\ max_connections \in 1..MaxConnections
    /\ pool_max_retries \in 0..MaxPoolRetries
    /\ checked_out = 0
    /\ ppc = "idle"
    /\ auto_retry = TRUE
    /\ conn = NULL
    /\ retries = 0
    /\ thrown = FALSE
    /\ checked_out_before = 0
    /\ call_end = "none"

\* No pool is in use.
PoolIdle == PoolInit /\ max_connections = 1 /\ pool_max_retries = 0

\* while retries <= (self.max_retries if auto_retry else 0)
retry_allowed == retries <= (IF auto_retry THEN pool_max_retries ELSE 0)

\* `with pool.get_connection(auto_retry)` is entered: the generator starts.
EnterWith(ar) ==
    /\ ppc = "idle"
    /\ auto_retry' = ar
    /\ conn' = NULL
    /\ retries' = 0
    /\ thrown' = FALSE
    /\ checked_out_before' = checked_out
    /\ call_end' = "none"
    /\ ppc' = "getconn"
    /\ UNCHANGED <<max_connections, pool_max_retries, checked_out, notPool>>

\* The with statement is over.
EndWith(how) ==
    /\ ppc' = "idle"
    /\ call_end' = how

\* self.pool.getconn() hands out a connection: one more slot in use.
GetConn ==
    /\ ppc = "getconn"
    /\ retry_allowed
    /\ checked_out < max_connections
    /\ checked_out' = checked_out + 1
    /\ conn' = <<"conn">>
    /\ ppc' = "probe"
    /\ UNCHANGED <<max_connections, pool_max_retries, auto_retry, retries,
                   thrown, checked_out_before, call_end, notPool>>

\* self.pool.getconn() raises PoolError (every slot is in use): the
\* `except Exception` branch, conn is None, raise.
GetConnExhausted ==
    /\ ppc = "getconn"
    /\ retry_allowed
    /\ checked_out = max_connections
    /\ EndWith("PoolError")
    /\ UNCHANGED <<max_connections, pool_max_retries, checked_out,
                   auto_retry, conn, retries, thrown, checked_out_before,
                   notPool>>

\* The except OperationalError branch: close conn if there is one (the slot
\* is not given back to the pool), count the retry.
on_operational_error ==
    /\ conn' = NULL
    /\ retries' = retries + 1
    /\ ppc' = "getconn"
    /\ UNCHANGED <<max_connections, pool_max_retries, checked_out,
                   auto_retry, checked_out_before, call_end, notPool>>

\* self.pool.getconn() cannot connect: OperationalError, conn is None.
GetConnFails ==
    /\ ppc = "getconn"
    /\ retry_allowed
    /\ checked_out < max_connections
    /\ on_operational_error
    /\ UNCHANGED thrown

\* The probe SELECT 1 succeeds and the generator yields conn.  A generator
\* that yields again after the body raised into it makes the context
\* manager raise RuntimeError and close the generator at the yield.
ProbeSucceeds ==
    /\ ppc = "probe"
    /\ IF thrown
       THEN EndWith("RuntimeError")
       ELSE ppc' = "body" /\ call_end' = call_end
    /\ UNCHANGED <<max_connections, pool_max_retries, checked_out,
                   auto_retry, conn, retries, thrown, checked_out_before,
                   notPool>>

\* The probe SELECT 1 raises OperationalError.
ProbeFails ==
    /\ ppc = "probe"
    /\ on_operational_error
    /\ UNCHANGED thrown

\* The with body ends normally: putconn, return.
BodyReturns ==
    /\ ppc = "body"
    /\ checked_out' = checked_out - 1
    /\ EndWith("returned")
    /\ UNCHANGED <<max_connections, pool_max_retries, auto_retry, conn,
                   retries, thrown, checked_out_before, notPool>>

\* The with body raises an exception that is not an OperationalError:
\* putconn, raise.
BodyRaises ==
    /\ ppc = "body"
    /\ checked_out' = checked_out - 1
    /\ EndWith("raised")
    /\ UNCHANGED <<max_connections, pool_max_retries, auto_retry, conn,
                   retries, thrown, checked_out_before, notPool>>

\* The with body raises OperationalError, thrown into the generator at the
\* yield.
BodyRaisesOperationalError ==
    /\ ppc = "body"
    /\ thrown' = TRUE
    /\ on_operational_error

\* The while loop ends: raise OperationalError("Failed to get connection").
RetriesExhausted ==
    /\ ppc = "getconn"
    /\ ~retry_allowed
    /\ EndWith("OperationalError")
    /\ UNCHANGED <<max_connections, pool_max_retries, checked_out,
                   auto_retry, conn, retries, thrown, checked_out_before,
                   notPool>>

PoolNext ==
    \/ \E ar \in BOOLEAN : EnterWith(ar)
    \/ GetConn
    \/ GetConnExhausted
    \/ GetConnFails
    \/ ProbeSucceeds
    \/ ProbeFails
    \/ BodyReturns
    \/ BodyRaises
    \/ BodyRaisesOperationalError
    \/ RetriesExhausted

(***************************************************************************)
(* cloudwatch_logger.CloudWatchLogger                                      *)
(***************************************************************************)
\* The threads that call log() and flush(); "main" also calls close().
Callers == {"main", "other"}

\* The thread started by __init__ with target _auto_flush_loop.
Flusher == "flusher"

Threads == Callers \cup {Flusher}

\* CloudWatchLogger.__init__: empty deque, free lock, flusher started.
TelemetryInit ==
    /\ cw_batch_size \in 1..MaxLogBatch
    /\ buffer = <<>>
    /\ buffer_lock = NULL
    /\ should_stop = FALSE
    /\ tpc = [t \in Threads |-> IF t = Flusher THEN "loop" ELSE "idle"]
    /\ ctx = [t \in Threads |-> IF t = Flusher THEN "loop" ELSE "none"]
    /\ events = [t \in Threads |-> <<>>]
    /\ logged = 0
    /\ puts = <<>>
    /\ rejected = FALSE
    /\ logged_at_close = 0

\* No logger is in use.
TelemetryIdle == TelemetryInit /\ cw_batch_size = 1

\* Where a thread is once _flush returns to the method that called it.
after_flush(c) ==
    CASE c = "loop" -> "loop"
      [] c = "close" -> "closed"
      [] OTHER -> "idle"

\* Where a thread is once an exception leaves _flush: it ends the flusher
\* thread and propagates out of log, flush and close.
after_raise(c) ==
    CASE c = "loop" -> "dead"
      [] c = "close" -> "closed"
      [] OTHER -> "idle"

\* threading.Lock is not reentrant: acquire succeeds only on a free lock,
\* whoever holds it.
can_acquire(t) == buffer_lock = NULL

\* log(): with self.buffer_lock, append the event; below batch_size the with
\* block ends, otherwise _flush() is called inside it, lock still held.
Log(t) ==
    /\ tpc[t] = "idle"
    /\ logged < MaxEvents
    /\ can_acquire(t)
    /\ logged' = logged + 1
    /\ buffer' = Append(buffer, logged + 1)
    /\ IF Len(buffer') >= cw_batch_size
       THEN /\ buffer_lock' = <<t>>
            /\ tpc' = [tpc EXCEPT ![t] = "flush"]
            /\ ctx' = [ctx EXCEPT ![t] = "log"]
       ELSE UNCHANGED <<buffer_lock, tpc, ctx>>
    /\ UNCHANGED <<cw_batch_size, should_stop, events, puts, rejected,
                   logged_at_close, notTelemetry>>

\* flush(): calls _flush.
Flush(t) ==
    /\ tpc[t] = "idle"
    /\ tpc' = [tpc EXCEPT ![t] = "flush"]
    /\ ctx' = [ctx EXCEPT ![t] = "flush"]
    /\ UNCHANGED <<cw_batch_size, buffer, buffer_lock, should_stop, events,
                   logged, puts, rejected, logged_at_close, notTelemetry>>

\* close(): should_stop = True, then the join.
Close ==
    /\ tpc["main"] = "idle"
    /\ ~should_stop
    /\ should_stop' = TRUE
    /\ logged_at_close' = logged
    /\ tpc' = [tpc EXCEPT !["main"] = "join"]
    /\ UNCHANGED <<cw_batch_size, buffer, buffer_lock, ctx, events, logged,
                   puts, rejected, notTelemetry>>

\* flush_thread.join(timeout=10) returns, the flusher ended or not; close
\* then calls _flush.
Join ==
    /\ tpc["main"] = "join"
    /\ tpc' = [tpc EXCEPT !["main"] = "flush"]
    /\ ctx' = [ctx EXCEPT !["main"] = "close"]
    /\ UNCHANGED <<cw_batch_size, buffer, buffer_lock, should_stop, events,
                   logged, puts, rejected, logged_at_close, notTelemetry>>

\* _auto_flush_loop: while not should_stop: sleep, then _flush.
LoopIteration ==
    /\ tpc[Flusher] = "loop"
    /\ tpc' = [tpc EXCEPT ![Flusher] = IF should_stop THEN "done" ELSE "flush"]
    /\ UNCHANGED <<cw_batch_size, buffer, buffer_lock, should_stop, ctx,
                   events, logged, puts, rejected, logged_at_close,
                   notTelemetry>>

\* The first min(n, batch_size) events of the buffer, popped from the left.
take(n) == IF n < Len(buffer) THEN n ELSE Len(buffer)

\* `with self.buffer_lock` in _flush, at its start (return on an empty
\* buffer, else take up to batch_size events and go on to send them) and in
\* the except ClientError branch (extendleft(reversed(events)), return).
AcquireBufferLock(t) ==
    /\ tpc[t] \in {"flush", "reinsert"}
    /\ can_acquire(t)
    /\ IF tpc[t] = "flush"
       THEN IF buffer = <<>>
            THEN /\ tpc' = [tpc EXCEPT ![t] = after_flush(ctx[t])]
                 /\ UNCHANGED <<buffer, buffer_lock, events>>
            ELSE /\ events' = [events EXCEPT
                                 ![t] = SubSeq(buffer, 1, take(cw_batch_size))]
                 /\ buffer' = SubSeq(buffer, take(cw_batch_size) + 1,
                                     Len(buffer))
                 /\ buffer_lock' = <<t>>
                 /\ tpc' = [tpc EXCEPT ![t] = "put"]
       ELSE /\ buffer' = events[t] \o buffer
            /\ tpc' = [tpc EXCEPT ![t] = after_flush(ctx[t])]
            /\ UNCHANGED <<buffer_lock, events>>
    /\ UNCHANGED <<cw_batch_size, should_stop, ctx, logged, puts, rejected,
                   logged_at_close, notTelemetry>>

\* put_log_events accepts the events; the with block ends and _flush
\* returns.
PutSucceeds(t) ==
    /\ tpc[t] = "put"
    /\ puts' = Append(puts, events[t])
    /\ buffer_lock' = NULL
    /\ tpc' = [tpc EXCEPT ![t] = after_flush(ctx[t])]
    /\ UNCHANGED <<cw_batch_size, buffer, should_stop, ctx, events, logged,
                   rejected, logged_at_close, notTelemetry>>

\* put_log_events raises InvalidSequenceTokenException: the handler sends
\* the events again with the token of the message.  A ClientError of that
\* second call is raised inside the handler and leaves _flush.
PutInvalidSequenceToken(t, accepted) ==
    /\ tpc[t] = "put"
    /\ buffer_lock' = NULL
    /\ IF accepted
       THEN /\ puts' = Append(puts, events[t])
            /\ tpc' = [tpc EXCEPT ![t] = after_flush(ctx[t])]
            /\ UNCHANGED rejected
       ELSE /\ rejected' = TRUE
            /\ tpc' = [tpc EXCEPT ![t] = after_raise(ctx[t])]
            /\ UNCHANGED puts
    /\ UNCHANGED <<cw_batch_size, buffer, should_stop, ctx, events, logged,
                   logged_at_close, notTelemetry>>

\* put_log_events raises another ClientError: the handler goes on to
\* `with self.buffer_lock`, inside the with block of _flush.
PutFails(t) ==
    /\ tpc[t] = "put"
    /\ rejected' = TRUE
    /\ tpc' = [tpc EXCEPT ![t] = "reinsert"]
    /\ UNCHANGED <<cw_batch_size, buffer, buffer_lock, should_stop, ctx,
                   events, logged, puts, logged_at_close, notTelemetry>>

TelemetryNext ==
    \/ \E t \in Callers : Log(t)
    \/ \E t \in Callers : Flush(t)
    \/ Close
    \/ Join
    \/ LoopIteration
    \/ \E t \in Threads : AcquireBufferLock(t)
    \/ \E t \in Threads : PutSucceeds(t)
    \/ \E t \in Threads, accepted \in BOOLEAN :
          PutInvalidSequenceToken(t, accepted)
    \/ \E t \in Threads : PutFails(t)

(***************************************************************************)
(* distributed_worker.DistributedWorker._download_input_file and the part  *)
(* of _execute_job around it                                               *)
(***************************************************************************)
\* The keys of config['input'] the code looks at.
InputKeys == {"file_path", "url", "s3_bucket", "s3_key"}

\* _execute_job is entered with some input config; the local file it may
\* name exists or not.
InputInit ==
    /\ input_config \in SUBSET InputKeys
    /\ local_exists \in BOOLEAN
    /\ temp_exists = FALSE
    /\ ipc = "start"
    /\ file_path = NULL
    /\ temp_file_path = NULL
    /\ job_error = NULL

\* No job is being executed.
InputIdle == InputInit /\ input_config = {} /\ local_exists = FALSE

\* The branch _download_input_file takes: the first of its three tests that
\* holds, else none.
input_method(cfg) ==
    IF "file_path" \in cfg THEN "file_path"
    ELSE IF "url" \in cfg THEN "url"
    ELSE IF "s3_bucket" \in cfg /\ "s3_key" \in cfg THEN "s3"
    ELSE "none"

\* if 'url' in input_config or 's3_bucket' in input_config
downloaded(cfg) == "url" \in cfg \/ "s3_bucket" \in cfg

\* _download_input_file returns a path (the local one, or a temp file it
\* created and filled) or raises ValueError; _execute_job then records the
\* path as temp_file_path if the config has a url or an s3_bucket.
AcquireInput ==
    /\ ipc = "start"
    /\ IF input_method(input_config) = "none"
       THEN /\ job_error' = <<"ValueError">>
            /\ ipc' = "finally"
            /\ UNCHANGED <<file_path, temp_file_path, temp_exists>>
       ELSE /\ file_path' = IF input_method(input_config) = "file_path"
                            THEN <<"local">> ELSE <<"temp">>
            /\ temp_exists' = (input_method(input_config) # "file_path")
            /\ temp_file_path' = IF downloaded(input_config)
                                 THEN file_path' ELSE NULL
            /\ ipc' = "acquired"
            /\ UNCHANGED job_error
    /\ UNCHANGED <<input_config, local_exists, notInput>>

\* urlretrieve or download_file raises after the temp file was created.
DownloadFails ==
    /\ ipc = "start"
    /\ input_method(input_config) \in {"url", "s3"}
    /\ temp_exists' = TRUE
    /\ job_error' = <<"download">>
    /\ ipc' = "finally"
    /\ UNCHANGED <<input_config, local_exists, file_path, temp_file_path,
                   notInput>>

\* The loader is loaded and run on file_path, and the job completed; any
\* of these may raise.
RunLoader(ok) ==
    /\ ipc = "acquired"
    /\ job_error' = IF ok THEN NULL ELSE <<"loader">>
    /\ ipc' = "finally"
    /\ UNCHANGED <<input_config, local_exists, temp_exists, file_path,
                   temp_file_path, notInput>>

\* os.path.exists(temp_file_path)
path_exists(p) == IF p = <<"local">> THEN local_exists ELSE temp_exists

\* finally: remove temp_file_path if it is set and exists.
Finally ==
    /\ ipc = "finally"
    /\ ipc' = "done"
    /\ IF temp_file_path # NULL /\ path_exists(temp_file_path)
       THEN IF temp_file_path = <<"local">>
            THEN local_exists' = FALSE /\ UNCHANGED temp_exists
            ELSE temp_exists' = FALSE /\ UNCHANGED local_exists
       ELSE UNCHANGED <<local_exists, temp_exists>>
    /\ UNCHANGED <<input_config, file_path, temp_file_path, job_error,
                   notInput>>

InputNext ==
    \/ AcquireInput
    \/ DownloadFails
    \/ \E ok \in BOOLEAN : RunLoader(ok)
    \/ Finally

(***************************************************************************)
(* propose_api_client.ProposeAPIClient.propose_fact                        *)
(***************************************************************************)
\* The ways a propose_fact call can go before a row is parsed.
ProposePaths ==
    {"invalid_relationship", "invalid_source_type", "invalid_target_type",
     "validation_raises", "database_error", "unexpected_error", "no_row",
     "row"}

\* Values of the status column, NULL included, and the key missing.
RawStatuses ==
    {<<"success">>, <<"conflicts">>, <<"error">>, <<"pending">>, NULL}

\* One element of the actions list: its 'error' and 'message' entries, each
\* missing (NULL), empty or a text; or an element that is not a dict.
ActionItems ==
    {[dict |-> TRUE, error |-> <<"e">>, message |-> NULL],
     [dict |-> TRUE, error |-> NULL, message |-> <<"m">>],
     [dict |-> TRUE, error |-> <<"">>, message |-> <<"m">>],
     [dict |-> TRUE, error |-> NULL, message |-> NULL],
     [dict |-> FALSE, error |-> NULL, message |-> NULL]}

\* The actions column: missing, NULL, a list, a dict, or a string holding
\* the JSON of a list, well formed or not.
RawActions ==
    {[form |-> f, items |-> <<>>] : f \in {"missing", "null", "list", "str",
                                           "badstr"}}
       \cup {[form |-> f, items |-> <<a>>] :
                f \in {"list", "str"}, a \in ActionItems}
       \cup {[form |-> "dict", items |-> <<a>>] :
                a \in {i \in ActionItems : i.dict}}

\* The rows propose_fact() of the database can hand back.
RawResults ==
    [has_status : BOOLEAN, status : RawStatuses, actions : RawActions,
     confidence_is_number : BOOLEAN]

NoResult ==
    [has_status |-> FALSE, status |-> NULL,
     actions |-> [form |-> "missing", items |-> <<>>],
     confidence_is_number |-> TRUE]

\* A propose_fact call is about to be made.
ProposeInit ==
    /\ propose_path \in ProposePaths
    /\ raw_result \in IF propose_path = "row"
                      THEN {r \in RawResults : r.has_status \/ r.status = NULL}
                      ELSE {NoResult}
    /\ response = NULL

\* No call is made.
ProposeIdle ==
    ProposeInit /\ propose_path = "no_row"

\* ProposeResponse(success=False, status='error', error_message=...)
error_response(text) ==
    [success |-> FALSE, status |-> <<"error">>, error_message |-> <<text>>]

\* Python truth of an optional string.
truthy(x) == x # NULL /\ x # <<"">>

\* a.get('error') or a.get('message')
error_or_message(a) == IF truthy(a.error) THEN a.error ELSE a.message

\* raw_result.get('status', 'error')
status_of(r) == IF r.has_status THEN r.status ELSE <<"error">>

\* json.loads of a malformed string, .get on an element that is not a dict,
\* and float(None) raise inside _parse_response.
parse_raises(r) ==
    \/ r.actions.form = "badstr"
    \/ /\ status_of(r) = <<"error">>
       /\ r.actions.form \in {"list", "str"}
       /\ r.actions.items # <<>>
       /\ ~r.actions.items[1].dict
    \/ ~r.confidence_is_number

\* `if status == 'error' and actions:` and the extraction below it.
extracted_message(r) ==
    IF status_of(r) = <<"error">> /\ r.actions.items # <<>>
    THEN error_or_message(r.actions.items[1])
    ELSE NULL

\* success = status in ['success', 'conflicts']
success_of_strict(status) == status = <<"success">>

success_of(status) == status \in {<<"success">>, <<"conflicts">>}

_parse_response(r) ==
    IF parse_raises(r)
    THEN error_response("Response parsing error")
    ELSE [success |-> success_of(status_of(r)),
          status |-> status_of(r),
          error_message |-> extracted_message(r)]

\* One of the three validations fails, or the validation raises.
ValidationFails ==
    /\ response = NULL
    /\ propose_path \in {"invalid_relationship", "invalid_source_type",
                         "invalid_target_type", "validation_raises"}
    /\ response' = <<error_response(propose_path)>>
    /\ UNCHANGED <<propose_path, raw_result, notPropose>>

\* except psycopg2.Error
DatabaseError ==
    /\ response = NULL
    /\ propose_path = "database_error"
    /\ response' = <<error_response("Database error")>>
    /\ UNCHANGED <<propose_path, raw_result, notPropose>>

\* except Exception
UnexpectedError ==
    /\ response = NULL
    /\ propose_path = "unexpected_error"
    /\ response' = <<error_response("Unexpected error")>>
    /\ UNCHANGED <<propose_path, raw_result, notPropose>>

\* cursor.fetchone() returns None.
NoRow ==
    /\ response = NULL
    /\ propose_path = "no_row"
    /\ response' = <<error_response("No response from database")>>
    /\ UNCHANGED <<propose_path, raw_result, notPropose>>

\* return self._parse_response(dict(result))
RowParsed ==
    /\ response = NULL
    /\ propose_path = "row"
    /\ response' = <<_parse_response(raw_result)>>
    /\ UNCHANGED <<propose_path, raw_result, notPropose>>

ProposeNext ==
    \/ ValidationFails
    \/ DatabaseError
    \/ UnexpectedError
    \/ NoRow
    \/ RowParsed

(***************************************************************************)
(* iowa_business_loader: BaseDataLoader.process_batch and                  *)
(* IowaBusinessLoader.process_record, record by record                     *)
(***************************************************************************)
\* The responses _propose_geographic_company builds itself.
GeographicResponses ==
    {[source |-> "geographic", success |-> TRUE, status |-> <<"success">>,
      conflicts |-> 0],
     [source |-> "geographic", success |-> FALSE, status |-> <<"error">>,
      conflicts |-> 0]}

\* What the server's propose_fact reports: conflicting relationships are
\* listed exactly when the status is conflicts.
ServerRows ==
    {[status |-> <<"success">>, conflicts |-> 0],
     [status |-> <<"conflicts">>, conflicts |-> 1],
     [status |-> <<"error">>, conflicts |-> 0]}

\* The responses propose_fact returns for _propose_company_state and
\* _propose_registered_agent.
ClientResponses(source) ==
    {[source |-> source, success |-> success_of(row.status),
      status |-> row.status, conflicts |-> row.conflicts] :
        row \in ServerRows}

\* The result lists process_record can return: the company response, then
\* the agent's if the record names one.
ResponseLists ==
    LET first == GeographicResponses \cup ClientResponses("state")
    IN  {<<r>> : r \in first}
           \cup {<<r, a>> : r \in first, a \in ClientResponses("agent")}

\* What happens to one raw record inside process_batch.
RecordOutcomes ==
    {[kind |-> k, responses |-> <<>>] :
        k \in {"parse_raises", "parse_null", "validation_errors",
               "validate_raises", "process_raises"}}
       \cup {[kind |-> "processed", responses |-> rs] : rs \in ResponseLists}

Batches ==
    UNION {[1..n -> RecordOutcomes] : n \in 0..MaxBatchLen}

\* process_batch is called with some batch; the loop is about to start.
BatchInit ==
    /\ raw_batch \in Batches
    /\ index = 1
    /\ attempted = 0
    /\ results = <<>>
    /\ bstats = [total_processed |-> 0, successful |-> 0, failed |-> 0,
                 skipped |-> 0, entities_created |-> 0,
                 relationships_created |-> 0, conflicts_detected |-> 0]
    /\ bpc = "loop"

\* process_batch is not called.
BatchIdle == BatchInit /\ raw_batch = <<>>

\* entities_created: the responses with success.
successes(rs) == Cardinality({i \in 1..Len(rs) : rs[i].success})

\* conflicts = [r for r in results if r.conflicts]; len(conflicts)
conflicting(rs) == Cardinality({i \in 1..Len(rs) : rs[i].conflicts > 0})

\* relationships_created: 2 for the geographic company, 1 otherwise.
RECURSIVE relationships(_)
relationships(rs) ==
    IF rs = <<>> THEN 0
    ELSE (IF ~rs[1].success THEN 0
          ELSE IF rs[1].source = "geographic" THEN 2 ELSE 1)
            + relationships(Tail(rs))

\* all(r.success for r in propose_results)
all_success(rs) == \A i \in 1..Len(rs) : rs[i].success

\* What the handlers of process_batch do once a record is dealt with: each
\* of them ends with continue or falls off the loop body.
after_record_unguarded(kind) ==
    IF kind = "validate_raises" THEN "raise" ELSE "continue"

after_record(kind) == "continue"

\* The record at the loop index.
current == raw_batch[index]

\* The loop goes to the next record, or an exception leaves process_batch.
Advance(kind) ==
    /\ attempted' = attempted + 1
    /\ IF after_record(kind) = "continue"
       THEN index' = index + 1 /\ bpc' = bpc
       ELSE index' = index /\ bpc' = "raised"

InLoop == bpc = "loop" /\ index <= Len(raw_batch)

\* parse_record raises: failed, a failed result, continue.
ParseRaises ==
    /\ InLoop
    /\ current.kind = "parse_raises"
    /\ bstats' = [bstats EXCEPT !.failed = @ + 1]
    /\ results' = Append(results, "failed")
    /\ Advance("parse_raises")
    /\ UNCHANGED <<raw_batch, notBatch>>

\* parse_record returns nothing: skipped, no result, continue.
ParseNull ==
    /\ InLoop
    /\ current.kind = "parse_null"
    /\ bstats' = [bstats EXCEPT !.skipped = @ + 1]
    /\ Advance("parse_null")
    /\ UNCHANGED <<raw_batch, results, notBatch>>

\* validate_record returns errors: failed, a failed result, continue.
ValidationErrors ==
    /\ InLoop
    /\ current.kind = "validation_errors"
    /\ bstats' = [bstats EXCEPT !.failed = @ + 1]
    /\ results' = Append(results, "failed")
    /\ Advance("validation_errors")
    /\ UNCHANGED <<raw_batch, notBatch>>

\* Anything else raises (validate_record, the check of the results): the
\* outer except counts failed and appends an error result.
OuterExcept ==
    /\ InLoop
    /\ current.kind = "validate_raises"
    /\ bstats' = [bstats EXCEPT !.failed = @ + 1]
    /\ results' = Append(results, "error")
    /\ Advance("validate_raises")
    /\ UNCHANGED <<raw_batch, notBatch>>

\* except Exception as process_error: failed, a failed result, continue.
process_error ==
    /\ bstats' = [bstats EXCEPT !.failed = @ + 1]
    /\ results' = Append(results, "failed")
    /\ Advance("process_raises")

\* process_record, or the circuit breaker in front of it, raises.
ProcessRaises ==
    /\ InLoop
    /\ current.kind = "process_raises"
    /\ process_error
    /\ UNCHANGED <<raw_batch, notBatch>>

\* process_record returns its responses, having counted entities,
\* relationships and the responses that list conflicts; process_batch
\* counts the record successful if every response has success, else failed.
check_results ==
    /\ LET rs == current.responses
           ok == all_success(rs)
       IN  /\ bstats' =
                 [bstats EXCEPT
                    !.entities_created = @ + successes(rs),
                    !.relationships_created = @ + relationships(rs),
                    !.conflicts_detected = @ + conflicting(rs),
                    !.successful = IF ok THEN @ + 1 ELSE @,
                    !.failed = IF ok THEN @ ELSE @ + 1]
           /\ results' = Append(results, IF ok THEN "success" ELSE "failed")
    /\ Advance("processed")

\* process_record is called and returns.
RecordProcessed ==
    /\ InLoop
    /\ current.kind = "processed"
    /\ check_results
    /\ UNCHANGED <<raw_batch, notBatch>>

\* After the loop: total_processed += len(batch); return results.
BatchReturns ==
    /\ bpc = "loop"
    /\ index > Len(raw_batch)
    /\ bstats' = [bstats EXCEPT !.total_processed = @ + Len(raw_batch)]
    /\ bpc' = "returned"
    /\ UNCHANGED <<raw_batch, index, attempted, results, notBatch>>

BatchNext ==
    \/ ParseRaises
    \/ ParseNull
    \/ ValidationErrors
    \/ OuterExcept
    \/ ProcessRaises
    \/ RecordProcessed
    \/ BatchReturns

(***************************************************************************)
(* distributed_worker: the heartbeat thread of _execute_job                *)
(***************************************************************************)
\* Jobs the worker executes one after another; job j starts thread j.
HbJobs == 1..MaxHbJobs

\* The worker executes no job and no heartbeat thread was ever started.
HeartbeatInit ==
    /\ current_job_id = NULL
    /\ heartbeat_thread = NULL
    /\ epc = "idle"
    /\ job_seq = 0
    /\ hpc = [t \in HbJobs |-> "unborn"]
    /\ heartbeats = {}

\* No worker executes jobs: no job, no thread was ever created.
HeartbeatIdle ==
    /\ current_job_id = NULL
    /\ heartbeat_thread = NULL
    /\ epc = "idle"
    /\ job_seq = 0
    /\ hpc = <<>>
    /\ heartbeats = {}

\* Positions of a thread that was started and did not return yet.
AlivePositions == {"check", "beat", "sleep"}

\* threading.Thread.is_alive
is_alive(t) == hpc[t] \in AlivePositions

\* _execute_job up to the download: self.current_job_id = job_id, then a new
\* Thread(target=self._heartbeat_loop, daemon=True) is started.
StartJob ==
    /\ epc = "idle"
    /\ job_seq < MaxHbJobs
    /\ job_seq' = job_seq + 1
    /\ current_job_id' = <<job_seq + 1>>
    /\ heartbeat_thread' = <<job_seq + 1>>
    /\ hpc' = [hpc EXCEPT ![job_seq + 1] = "check"]
    /\ epc' = "executing"
    /\ UNCHANGED <<heartbeats, notHeartbeat>>

\* The finally block of _execute_job, after the loader returned or raised:
\* self.current_job_id = None. The thread is neither joined nor signalled.
EndJob ==
    /\ epc = "executing"
    /\ current_job_id' = NULL
    /\ epc' = "idle"
    /\ UNCHANGED <<heartbeat_thread, job_seq, hpc, heartbeats, notHeartbeat>>

\* _heartbeat_loop: while self.current_job_id
loop_condition(t) == current_job_id # NULL

HeartbeatCheck(t) ==
    /\ hpc[t] = "check"
    /\ hpc' = [hpc EXCEPT ![t] = IF loop_condition(t) THEN "beat" ELSE "dead"]
    /\ UNCHANGED <<current_job_id, heartbeat_thread, epc, job_seq,
                   heartbeats, notHeartbeat>>

\* The loop body: the workers row is updated and the coordinator is told
\* POST /jobs/{self.current_job_id}/heartbeat; the field is read again here
\* (None is formatted into the URL when the job has ended meanwhile).
HeartbeatSend(t) ==
    /\ hpc[t] = "beat"
    /\ heartbeats' = heartbeats \cup {[thread |-> t, job |-> current_job_id]}
    /\ hpc' = [hpc EXCEPT ![t] = "sleep"]
    /\ UNCHANGED <<current_job_id, heartbeat_thread, epc, job_seq,
                   notHeartbeat>>

\* time.sleep(60) returns.
HeartbeatWake(t) ==
    /\ hpc[t] = "sleep"
    /\ hpc' = [hpc EXCEPT ![t] = "check"]
    /\ UNCHANGED <<current_job_id, heartbeat_thread, epc, job_seq,
                   heartbeats, notHeartbeat>>

HeartbeatNext ==
    \/ StartJob
    \/ EndJob
    \/ \E t \in HbJobs : HeartbeatCheck(t)
    \/ \E t \in HbJobs : HeartbeatSend(t)
    \/ \E t \in HbJobs : HeartbeatWake(t)

(***************************************************************************)
(* iowa_business_loader: process_batch submitting records through the      *)
(* loader's circuit breaker                                                *)
(***************************************************************************)
\* What is left alone when process_batch calls the breaker.
notGuarded ==
    <<jobVars, retryVars, dlqVars, ldVars, poolVars, cwVars, inVars, prVars,
      hbVars, crVars>>

\* Records that never reach the breaker (parse_record returns nothing), and
\* records whose process_record, if called, raises or returns one response.
GuardedOutcomes ==
    {o \in RecordOutcomes :
        \/ o.kind \in {"parse_null", "process_raises"}
        \/ /\ o.kind = "processed"
           /\ Len(o.responses) = 1
           /\ o.responses[1].source = "state"}

\* The record is parsed and valid: circuit_breaker.call(process_record, ..).
Submitted == InLoop /\ current.kind \in {"process_raises", "processed"}

\* The breaker raises "Circuit breaker is OPEN"; process_record is not
\* called and the exception is handled as a processing error.
GuardedRejected ==
    /\ Submitted
    /\ call_rejected
    /\ process_error
    /\ UNCHANGED <<raw_batch, notGuarded>>

\* The breaker calls process_record, which raises: _on_failure, re-raise,
\* handled as a processing error.
GuardedRaises ==
    /\ Submitted
    /\ current.kind = "process_raises"
    /\ call_raises
    /\ process_error
    /\ UNCHANGED <<raw_batch, notGuarded>>

\* The breaker calls process_record, which returns its responses:
\* _on_success, then the check of the results.
GuardedReturns ==
    /\ Submitted
    /\ current.kind = "processed"
    /\ call_returns
    /\ check_results
    /\ UNCHANGED <<raw_batch, notGuarded>>

GuardedNext ==
    \/ ParseNull
    \/ GuardedRejected
    \/ GuardedRaises
    \/ GuardedReturns
    \/ BatchReturns
    \/ Tick

(***************************************************************************)
(* iowa_business_loader: two loader processes running on the same file     *)
(***************************************************************************)
\* The two processes, each with its own loader object.
Runs == {"first", "second"}

\* Nothing is registered and neither process has called run.
ConcurrentInit ==
    /\ cr_file_len \in 1..MaxRecords
    /\ source_row = NULL
    /\ cr_pc = [r \in Runs |-> "idle"]
    /\ cr_start_from = [r \in Runs |-> 0]
    /\ cr_processed_count = [r \in Runs |-> 0]
    /\ cr_last_checkpoint = [r \in Runs |-> 0]
    /\ processed_by = [i \in 0..(cr_file_len - 1) |-> {}]

\* No loader process exists.
ConcurrentIdle ==
    /\ cr_file_len = 0
    /\ source_row = NULL
    /\ cr_pc = <<>>
    /\ cr_start_from = <<>>
    /\ cr_processed_count = <<>>
    /\ cr_last_checkpoint = <<>>
    /\ processed_by = <<>>

\* run up to the loop, in process r: register_source selects the row of
\* (source_type, file_hash) in one transaction; a completed row ends the run,
\* any other row is resumed from its records_processed, no row is inserted
\* as processing.  Nothing in the row says that a process is working on it.
Register(r) ==
    /\ cr_pc[r] = "idle"
    /\ IF source_row # NULL /\ already_processed(source_row[1])
       THEN /\ cr_pc' = [cr_pc EXCEPT ![r] = "already_processed"]
            /\ UNCHANGED <<source_row, cr_start_from>>
       ELSE /\ cr_pc' = [cr_pc EXCEPT ![r] = "loop"]
            /\ source_row' = IF source_row = NULL THEN <<NewSource>>
                             ELSE source_row
            /\ cr_start_from' =
                  [cr_start_from EXCEPT
                     ![r] = IF source_row = NULL THEN 0
                            ELSE resume_position(
                                    source_row[1].records_processed, 0)]
    /\ UNCHANGED <<cr_file_len, cr_processed_count, cr_last_checkpoint,
                   processed_by, notConcurrent>>

\* The reader's position in process r.
cr_position(r) == cr_start_from[r] + cr_processed_count[r]

\* One turn of the loop in process r with batch_size 1 and
\* checkpoint_interval 1: the record is processed, then the checkpoint test.
ProcessOne(r) ==
    /\ cr_pc[r] = "loop"
    /\ cr_position(r) < cr_file_len
    /\ LET count == cr_processed_count[r] + 1
           due == count - cr_last_checkpoint[r] >= 1
       IN /\ processed_by' =
                [processed_by EXCEPT ![cr_position(r)] = @ \cup {r}]
          /\ cr_processed_count' = [cr_processed_count EXCEPT ![r] = count]
          /\ source_row' =
                IF due
                THEN <<[source_row[1] EXCEPT
                          !.records_processed = cr_start_from[r] + count]>>
                ELSE source_row
          /\ cr_last_checkpoint' =
                IF due
                THEN [cr_last_checkpoint EXCEPT
                         ![r] = cr_start_from[r] + count]
                ELSE cr_last_checkpoint
    /\ UNCHANGED <<cr_file_len, cr_pc, cr_start_from, notConcurrent>>

\* The reader of process r is exhausted: final checkpoint, mark_complete.
Complete(r) ==
    /\ cr_pc[r] = "loop"
    /\ cr_position(r) >= cr_file_len
    /\ source_row' = <<[source_row[1] EXCEPT
                          !.status = "completed",
                          !.records_processed = cr_position(r)]>>
    /\ cr_last_checkpoint' = [cr_last_checkpoint EXCEPT ![r] = cr_position(r)]
    /\ cr_pc' = [cr_pc EXCEPT ![r] = "completed"]
    /\ UNCHANGED <<cr_file_len, cr_start_from, cr_processed_count,
                   processed_by, notConcurrent>>

ConcurrentNext ==
    \/ \E r \in Runs : Register(r)
    \/ \E r \in Runs : ProcessOne(r)
    \/ \E r \in Runs : Complete(r)

(***************************************************************************)
(*                              C L A I M S                                *)
(***************************************************************************)
Executing == {"execute", "loading"}

\* C1: at most one worker's claim UPDATE affects a job's row; that update
\* leaves the row claimed by that worker (no longer pending), and the UPDATE
\* of every other worker that received the job affected 0 rows.
C1_ClaimAtomicity ==
    \A j \in Rows :
        /\ Cardinality(claim_rows[j]) <= 1
        /\ \A w \in claim_rows[j] :
              jobs[j].status # "pending" /\ jobs[j].worker_id = w
        /\ \A w \in Workers :
              (pc[w] = "execute" /\ job_id(w) = j /\ w \notin claim_rows[j])
                  => rowcount[w] = 0

\* C1 witness: two workers received the same job, one UPDATE affected the
\* row and the other worker's UPDATE has just affected 0 rows.
C1_Witness ==
    \E j \in Rows : \E w1 \in Workers, w2 \in Workers :
        /\ w1 # w2
        /\ claim_rows[j] = {w1}
        /\ pc[w2] = "execute" /\ job_id(w2) = j /\ rowcount[w2] = 0

\* C2: a worker whose claim UPDATE affected 0 rows does not execute the job:
\* every worker inside _execute_job is the one whose UPDATE affected the row.
C2_LostRaceDiscarded ==
    \A w \in Workers :
        pc[w] \in Executing => w \in claim_rows[job_id(w)]

JobTransitions ==
    {<<"pending", "claimed">>, <<"claimed", "running">>,
     <<"running", "completed">>, <<"running", "failed">>}

\* C3: every row's status is one of the five, and each change of a row's
\* status follows pending -> claimed -> running -> (completed | failed).
C3_StatusTransitions ==
    [][\A j \in Rows :
          /\ jobs'[j].status \in Statuses
          /\ jobs'[j].status # jobs[j].status
                => <<jobs[j].status, jobs'[j].status>> \in JobTransitions]_vars

\* C4: while a row is claimed or running, a step of a worker that changes
\* the row is a step of the worker recorded in its worker_id.
C4_OnlyClaimerWrites ==
    [][\A w \in Workers : \A j \in Rows :
          (WorkerStep(w) /\ jobs'[j] # jobs[j]
              /\ jobs[j].status \in {"claimed", "running"})
          => jobs[j].worker_id = w]_vars

\* C5 as stated: worker_id is non-null iff status is claimed or running.
C5_WorkerIdIffActive ==
    \A j \in Rows :
        jobs[j].worker_id # NULL <=> jobs[j].status \in {"claimed", "running"}

\* C5 as amended: worker_id is null iff the row is pending; the claim sets
\* it and it stays set once the job is completed or failed.
C5_WorkerIdIffClaimed ==
    \A j \in Rows :
        jobs[j].worker_id # NULL <=> jobs[j].status # "pending"

\* C5 witness: a job has ended and its row still names its worker.
C5_Witness ==
    \E j \in Rows :
        jobs[j].status \in {"completed", "failed"} /\ jobs[j].worker_id # NULL

\* C6: when a worker's execution of a job ends, the row is completed if the
\* loader returned normally and failed, with a message, if a step raised.
C6_ExecutionEndsTerminal ==
    [][\A w \in Workers :
          (pc[w] \in Executing /\ pc'[w] \notin Executing)
          => IF CompleteJob(w)
             THEN jobs'[job_id(w)].status = "completed"
             ELSE /\ jobs'[job_id(w)].status = "failed"
                  /\ jobs'[job_id(w)].error_message # NULL]_vars

\* C7: handling POST /jobs/claim leaves every row of job_queue unchanged; a
\* 200 response carries the claim instruction with params
\* [worker_id, job_id].
C7_ClaimHandlerReadsOnly ==
    [][/\ \A w \in Workers :
            ClaimRequest(w) =>
                /\ jobs' = jobs
                /\ pc'[w] = "responded" =>
                      resp'[w].claim_instruction.params = <<w, resp'[w].job_id>>
       /\ \A body \in ExternalBodies :
            ExternalClaim(body) =>
                /\ jobs' = jobs
                /\ probe'.status = 200 =>
                      probe'.claim_instruction.params
                          = <<body.worker_id, probe'.job_id>>]_vars

\* C7 witness: the coordinator has answered 200 and the candidate's row is
\* still pending with no worker_id.
C7_Witness ==
    \E w \in Workers :
        /\ pc[w] = "responded" /\ resp[w].status = 200
        /\ jobs[resp[w].job_id].status = "pending"
        /\ jobs[resp[w].job_id].worker_id = NULL

\* What POST /jobs/claim must answer to a body, given the table it read.
ClaimAnswer(body, r) ==
    LET eligible == {k \in Rows : /\ jobs[k].status = "pending"
                                  /\ jobs[k].job_type \in body.capabilities}
    IN IF body.worker_id = NULL THEN r.status = 400
       ELSE IF eligible = {} THEN r.status = 204
       ELSE /\ r.status = 200
            /\ r.job_id \in eligible
            /\ \A k \in eligible :
                  jobs[r.job_id].created_at <= jobs[k].created_at

\* C8: POST /jobs/claim answers 400 without a worker_id, 204 when no pending
\* job has a type within the capabilities, and otherwise 200 with the pending
\* job of smallest created_at among those.
C8_OldestEligibleJob ==
    [][/\ \A w \in Workers :
            ClaimRequest(w) =>
                ClaimAnswer(ClaimBody(w), IF pc'[w] = "responded" THEN resp'[w]
                                          ELSE [status |-> 204])
       /\ \A body \in ExternalBodies :
            ExternalClaim(body) => ClaimAnswer(body, probe')]_vars

\* C8 witness: a client was given a job although an older pending job of a
\* type outside its capabilities is in the queue, and a worker was given the
\* older of two pending jobs.
C8_Witness ==
    /\ probe.status = 200
    /\ \E k \in Rows :
          /\ jobs[k].status = "pending"
          /\ jobs[k].job_type = "iowa_business"
          /\ jobs[k].created_at < jobs[probe.job_id].created_at
    /\ \E w \in Workers :
          /\ pc[w] = "responded" /\ resp[w].status = 200
          /\ \E k \in Rows :
                /\ jobs[k].status = "pending"
                /\ jobs[k].created_at > jobs[resp[w].job_id].created_at

\* C9: a closed breaker opens only when failure_threshold failures have
\* occurred in a row (a success in between resets the count).
C9_OpensAfterConsecutiveFailures ==
    [][(state = "CLOSED" /\ state' = "OPEN")
          => consecutive' >= failure_threshold]_vars

\* Time since the last failure.
Elapsed == now - last_failure_time[1]

\* C10: after failure_threshold failures in a row, a call made before the
\* timeout has elapsed since the last failure is rejected with the circuit
\* open error and func is not invoked; a call made after the timeout has
\* elapsed invokes func in HALF_OPEN.
C10_FailFastUntilTimeout ==
    [][(Call /\ consecutive >= failure_threshold)
          => /\ last_failure_time # NULL
             /\ Elapsed < timeout
                   => (last_call'.result = "circuit_open" /\ ~last_call'.invoked)
             /\ Elapsed > timeout
                   => (last_call'.invoked /\ last_call'.attempted_in = "HALF_OPEN")
      ]_vars

\* C10 witness: the breaker opened, its half-open attempt after the timeout
\* failed (failure_count passed the threshold), and the call after that was
\* rejected.
C10_Witness ==
    /\ consecutive >= failure_threshold
    /\ failure_count > failure_threshold
    /\ last_call.result = "circuit_open"
    /\ last_call.invoked = FALSE


\* C11: a call the breaker lets through while open (the half-open attempt)
\* invokes func; if func returns the breaker is closed with failure_count 0,
\* if func raises the breaker is open again with last_failure_time set to
\* the time of that failure.  Between calls the breaker is never half-open,
\* so the attempt is one call.
C11_HalfOpenOutcome ==
    [][/\ state' \in {"CLOSED", "OPEN"}
       /\ (Call /\ state = "OPEN" /\ should_attempt_reset)
             => /\ last_call'.invoked
                /\ last_call'.attempted_in = "HALF_OPEN"
                /\ last_call'.result = "returned"
                      => (state' = "CLOSED" /\ failure_count' = 0)
                /\ last_call'.result = "raised"
                      => (state' = "OPEN" /\ last_failure_time' = <<now>>)
      ]_vars

\* C11 witness: a half-open attempt made after the clock advanced has failed
\* and the breaker is open again with the failure time refreshed.
C11_Witness ==
    /\ last_call.attempted_in = "HALF_OPEN"
    /\ last_call.result = "raised"
    /\ state = "OPEN"
    /\ last_failure_time # NULL
    /\ last_failure_time[1] > 0

\* C12: the wrapper invokes func at most max_retries + 1 times; it returns
\* the result of the first invocation that returns, every earlier invocation
\* having raised a configured exception; a configured exception is rethrown
\* only once max_retries + 1 invocations have failed, and it is the last one
\* raised; any other exception is rethrown at once, with no sleep after it.
\* Each sleep is between two invocations.
C12_RetryContract ==
    /\ invocations <= max_retries + 1
    /\ \A i \in 1..Len(raised) :
          i < Len(raised) => raised[i] \in Matching
    /\ Len(slept) = IF outcome.kind = "raised" THEN Len(raised) - 1
                    ELSE Len(raised)
    /\ outcome.kind = "returned"
          => /\ outcome.value = <<"result", invocations>>
             /\ \A i \in 1..Len(raised) : raised[i] \in Matching
    /\ outcome.kind = "raised"
          => /\ outcome.value = <<raised[Len(raised)]>>
             /\ outcome.value[1] \in Matching
                   => invocations = max_retries + 1

\* C12 witness: retries were exhausted on configured exceptions of two kinds
\* and the last one was rethrown.
C12_Witness ==
    /\ outcome.kind = "raised"
    /\ max_retries >= 2
    /\ Len(raised) = max_retries + 1
    /\ raised[1] # raised[Len(raised)]
    /\ outcome.value = <<raised[Len(raised)]>>

\* C13: no row of failed_records has attempt_count above MAX_RETRIES.
C13_AttemptBound ==
    \A r \in Records : failed_records[r].attempt_count <= MAX_RETRIES

\* C14: once a row has reprocessed = TRUE no reprocess attempt starts for it:
\* no reprocessor runs mark_reprocessing on it or hands it to the loader.
C14_NoRetryAfterReprocessed ==
    [][\A p \in Reprocessors :
          (MarkReprocessing(p) \/ ReprocessSucceeds(p) \/ ReprocessFails(p))
          => ~failed_records[batch[p][1].record_id].reprocessed]_vars

\* Ids of the records a reprocessor's select has just returned.
Returned(p) == {batch'[p][i].record_id : i \in 1..Len(batch'[p])}

\* C15: a select for retry does not return a record before the cooldown has
\* elapsed since it was added, returns a never attempted record once the
\* cooldown has elapsed, and never returns a reprocessed record.
C15_CooldownBeforeFirstRetry ==
    [][\A p \in Reprocessors : SelectBatch(p) =>
          \A r \in Records :
             /\ r \in Returned(p)
                   => clock - failed_records[r].created_at >= older_than_minutes
             /\ (/\ failed_records[r].attempt_count = 1
                 /\ ~failed_records[r].reprocessed
                 /\ clock - failed_records[r].created_at > older_than_minutes)
                   => r \in Returned(p)
             /\ failed_records[r].reprocessed => r \notin Returned(p)]_vars

\* A run of the loader starts: the step is StartRun with the arguments the
\* next state records (start_from is overridden on a resume, so it is drawn).
RunStarts ==
    /\ limit' \in Limits
    /\ batch_size' \in 1..MaxBatchSize
    /\ checkpoint_interval' \in 1..MaxBatchSize
    /\ \E sf \in 0..1 : StartRun(limit', batch_size', sf, checkpoint_interval')

CountedAfter ==
    sources'[source_id[1]].records_imported
        + sources'[source_id[1]].records_failed
        + sources'[source_id[1]].records_skipped

\* C18: every checkpoint written to the source row (in the loop or after
\* it) has records_processed >= imported + failed + skipped
\* >= records_processed - batch_size.
C18_CheckpointCounters ==
    [][(/\ (\E ok \in 0..MaxBatchSize, bad \in 0..MaxBatchSize :
               ProcessBatch(ok, bad)) \/ FinishRun
        /\ last_checkpoint' = start_from + processed_count')
       => /\ sources'[source_id[1]].records_processed >= CountedAfter
          /\ CountedAfter
                >= sources'[source_id[1]].records_processed - batch_size]_vars

\* C19: a run given a limit processes at most that many records.
C19_LimitBound ==
    limit # NULL => processed_count <= limit[1]

\* C20: when a `with pool.get_connection()` statement ends, however it
\* ends, as many pool slots are checked out as when it was entered.
C20_NoSlotLeaked ==
    [][(ppc # "idle" /\ ppc' = "idle")
          => checked_out' = checked_out_before]_vars

\* A thread waits for the buffer lock while holding it itself: nothing ever
\* releases the lock.
BlockedOnOwnLock(t) ==
    /\ tpc[t] \in {"flush", "reinsert"}
    /\ buffer_lock = <<t>>

\* C21: a log() that fills the buffer to batch_size sends the buffered
\* events and returns: the thread is never left inside log() waiting for
\* the buffer lock it holds.
C21_FlushAtBatchSize ==
    \A t \in Callers : ~(ctx[t] = "log" /\ BlockedOnOwnLock(t))

\* C22: a flush whose put_log_events raised a client error can take the
\* buffer lock for the reinsertion, puts the events it took back in front
\* of the buffer in their order, and returns.
C22_FailedFlushReinserts ==
    [][\A t \in Threads :
          /\ tpc'[t] = "reinsert" => buffer_lock' # <<t>>
          /\ (tpc[t] = "reinsert" /\ tpc'[t] # "reinsert")
                => /\ buffer' = events[t] \o buffer
                   /\ tpc'[t] = after_flush(ctx[t])]_vars

\* Every event of 1..n has been accepted by put_log_events.
Sent(n) ==
    \A e \in 1..n : \E i \in 1..Len(puts) :
        \E j \in 1..Len(puts[i]) : puts[i][j] = e

\* C23: with the log service accepting every call, a close() in progress is
\* never stopped for good short of its final flush, the flusher stops once
\* asked to, and when close() has returned the buffer is drained and every
\* event logged before close() has been sent.
C23_CloseDrains ==
    (should_stop /\ ~rejected)
       => /\ \A t \in Threads : ~BlockedOnOwnLock(t)
          /\ (tpc["main"] = "closed" /\ logged = logged_at_close)
                => (buffer = <<>> /\ Sent(logged_at_close))

\* The input sources a config specifies: file_path, url, or the s3 pair.
Specified(cfg) ==
    {m \in {"file_path", "url"} : m \in cfg}
       \cup (IF "s3_bucket" \in cfg /\ "s3_key" \in cfg THEN {"s3"} ELSE {})

\* C24: an input config that specifies no source, or more than one, is
\* rejected with a configuration error and nothing is acquired.
C24_ExactlyOneInput ==
    [][(ipc = "start" /\ ipc' # "start"
           /\ Cardinality(Specified(input_config)) # 1)
          => /\ job_error' = <<"ValueError">>
             /\ file_path' = NULL
             /\ ~temp_exists']_vars

\* C25: every response of propose_fact has success true exactly when its
\* status is success or conflicts, and has an error message when its status
\* is error.
C25_ResponseShape ==
    response # NULL
       => /\ response[1].success
                <=> response[1].status \in {<<"success">>, <<"conflicts">>}
          /\ response[1].status = <<"error">>
                => response[1].error_message # NULL

\* The record the last step of process_batch dealt with.
Handled == raw_batch[index - 1]

\* Some response of the record has status conflicts.
HasConflictsStatus(rec) ==
    \E i \in 1..Len(rec.responses) : rec.responses[i].status = <<"conflicts">>

\* Every response of the record has status success or conflicts.
AllSuccessOrConflicts(rec) ==
    \A i \in 1..Len(rec.responses) :
        rec.responses[i].status \in {<<"success">>, <<"conflicts">>}

\* C26: a record whose responses all have status success or conflicts is
\* counted successful and not failed, and conflicts_detected grows when one
\* of them has status conflicts.
C26_ConflictsAreSuccess ==
    [][(InLoop /\ current.kind = "processed"
           /\ AllSuccessOrConflicts(current))
          => /\ bstats'.successful = bstats.successful + 1
             /\ bstats'.failed = bstats.failed
             /\ results'[Len(results')] = "success"
             /\ HasConflictsStatus(current)
                   => bstats'.conflicts_detected > bstats.conflicts_detected]_vars

C26_Witness ==
    /\ index > 1
    /\ Handled.kind = "processed"
    /\ AllSuccessOrConflicts(Handled)
    /\ HasConflictsStatus(Handled)
    /\ bstats.successful = 1
    /\ bstats.conflicts_detected >= 1

\* C30: process_batch never lets an exception out; when it returns it has
\* attempted every record of the batch, whatever happened to each, and has
\* added the batch size to total_processed.
C30_BatchNeverAborts ==
    /\ bpc # "raised"
    /\ bpc = "returned"
          => /\ attempted = Len(raw_batch)
             /\ bstats.total_processed = Len(raw_batch)

C30_Witness ==
    /\ bpc = "returned"
    /\ Len(raw_batch) = 2
    /\ raw_batch[1].kind = "validate_raises"
    /\ raw_batch[2].kind = "processed"
    /\ attempted = 2

\* Records processed since the last checkpoint this run saved, or since the
\* run started if it has saved none.
SinceCheckpoint ==
    IF last_checkpoint = 0 THEN processed_count
    ELSE Position - last_checkpoint

\* A turn of run's for loop.
BatchStep == lpc = "loop" /\ processed_count' > processed_count

\* C27: after each batch a checkpoint is saved if the records processed
\* since the last saved checkpoint have reached checkpoint_interval, so
\* that at a batch boundary they never exceed checkpoint_interval +
\* batch_size.
C27_CheckpointWhenDue ==
    [][BatchStep
          => /\ (SinceCheckpoint + (processed_count' - processed_count)
                    >= checkpoint_interval)
                   => last_checkpoint' = Position'
             /\ SinceCheckpoint' <= checkpoint_interval + batch_size]_vars

\* A step in which the framework saves a checkpoint.
CheckpointSaved ==
    /\ source_id' # NULL
    /\ lpc # "idle"
    /\ last_checkpoint' # last_checkpoint

\* C28: run accepts the call the worker makes, with its three callbacks,
\* and every checkpoint the framework saves in such a run leaves the cursor
\* in the checkpoint field of the job row.
C28_CheckpointReachesJobRow ==
    [][/\ run_caller' = "worker" => result' # "TypeError"
       /\ (run_caller = "worker" /\ CheckpointSaved)
             => job_checkpoint' = <<last_checkpoint'>>]_vars

\* C29: the records of a run are processed in source order, each batch
\* after everything processed before it, and the cursor written to the
\* source's row never goes back, in a run or from a run to the run that
\* resumes it.
C29_SequentialAndMonotonic ==
    [][/\ \A i \in touched' \ touched : \A j \in touched : j < i
       /\ (sources # <<>> /\ sources' # <<>>)
             => sources'[1].records_processed >= sources[1].records_processed]_vars

C29_Witness ==
    /\ resumed_at # NULL
    /\ resumed_at[1] > 0
    /\ lpc = "loop"
    /\ sources[1].records_processed > resumed_at[1]
    /\ Cardinality(touched) > 0

\* C31: the status of a source row only moves from processing to completed
\* or from processing to failed; a completed or failed row keeps its status
\* through every later run on the file.
C31_StatusTerminal ==
    [][\A i \in 1..Len(sources) :
          sources'[i].status # sources[i].status
             => /\ sources[i].status = "processing"
                /\ sources'[i].status \in {"completed", "failed"}]_vars

\* Records of the batch, among those handled so far, whose parse raised.
ParseFailures == {i \in 1..attempted : raw_batch[i].kind = "parse_raises"}

\* C32: every record whose parse raised is counted as failed and has a row in
\* the dead letter queue: the queue holds at least as many rows as there were
\* parse failures.
C32_ParseFailuresEnqueued ==
    /\ bstats.failed >= Cardinality(ParseFailures)
    /\ Cardinality(Records) >= Cardinality(ParseFailures)

\* Threads that were started and did not return yet.
AliveThreads == {t \in HbJobs : is_alive(t)}

\* C33: at most one heartbeat thread is alive at any time, a thread that is
\* alive belongs to the job being executed or to the job that just ended (it
\* is never alive during a later job), and every heartbeat it sends names
\* the job it was started for.
C33_HeartbeatBoundToJob ==
    /\ Cardinality(AliveThreads) <= 1
    /\ \A t \in AliveThreads : job_seq = t
    /\ \A h \in heartbeats : h.job = <<h.thread>>

\* C34: with the breaker open, a call is rejected exactly while the time
\* since the last failure is less than timeout; a call made when it equals
\* timeout invokes func in HALF_OPEN.
C34_PermittedAtTimeout ==
    [][(Call /\ state = "OPEN" /\ last_failure_time # NULL)
          => /\ Elapsed < timeout <=> last_call'.result = "circuit_open"
             /\ Elapsed = timeout
                   => (last_call'.invoked /\ last_call'.attempted_in = "HALF_OPEN")
      ]_vars

\* The events put_log_events has accepted, in the order of delivery.
RECURSIVE Delivered(_)
Delivered(ps) == IF ps = <<>> THEN <<>> ELSE ps[1] \o Delivered(Tail(ps))

\* How many times the event e occurs in the sequence s.
Occurrences(e, s) == Cardinality({i \in 1..Len(s) : s[i] = e})

\* How many threads hold the event e inside _flush: popped from the buffer,
\* with put_log_events or the reinsertion still to come.
Held(e) ==
    Cardinality({t \in Threads : /\ tpc[t] \in {"put", "reinsert"}
                                 /\ Occurrences(e, events[t]) > 0})

\* C35: every event passed to log() is in exactly one place: in the buffer,
\* held by a _flush in progress, or delivered by one accepted put_log_events
\* call; and events are delivered in the order they were logged.
C35_NoEventLost ==
    /\ \A e \in 1..logged :
          Occurrences(e, buffer) + Held(e) + Occurrences(e, Delivered(puts)) = 1
    /\ \A i, j \in 1..Len(Delivered(puts)) :
          i < j => Delivered(puts)[i] < Delivered(puts)[j]

\* C36: no step of a job's execution removes the local file that
\* input.file_path names, whatever else the input config names.
C36_LocalFileKept ==
    [][local_exists => local_exists']_vars

\* C37: a source row is completed only when the cursor it records has
\* reached the end of the file; a run that stops at its limit before that
\* leaves the row not completed.
C37_CompletedMeansWholeFile ==
    \A i \in 1..Len(sources) :
        sources[i].status = "completed"
           => sources[i].records_processed >= file_len

\* C38: a record that process_batch submits while the breaker is open and
\* the timeout has not elapsed is rejected without a call of process_record,
\* is counted as failed with a failed result, and the loop moves past it in
\* the same step, the clock unchanged; the loop never goes back to a record.
C38_OpenBreakerSkipsRecord ==
    [][/\ index' >= index
       /\ (/\ Submitted
           /\ state = "OPEN"
           /\ last_failure_time # NULL
           /\ Elapsed < timeout
           /\ attempted' # attempted)
             => /\ last_call'.result = "circuit_open"
                /\ ~last_call'.invoked
                /\ bstats'.failed = bstats.failed + 1
                /\ bstats'.successful = bstats.successful
                /\ results' = Append(results, "failed")
                /\ index' = index + 1
                /\ now' = now]_vars

\* C38 witness: a record was rejected by the open breaker after an earlier
\* record's failure opened it, and the loop is past both.
C38_Witness ==
    /\ last_call.result = "circuit_open"
    /\ state = "OPEN"
    /\ attempted >= 2
    /\ bstats.failed >= 2
    /\ index = attempted + 1

\* C39: no record of the file is processed by both loader processes, and
\* the cursor in the source's row is never overwritten with an earlier one.
C39_OneRunPerSource ==
    [][/\ \A i \in DOMAIN processed_by : Cardinality(processed_by'[i]) <= 1
       /\ (source_row # NULL /\ source_row' # NULL)
             => source_row'[1].records_processed
                   >= source_row[1].records_processed]_vars

\* C40: with no stop request and no keyboard interrupt, a worker's main loop
\* never ends: whatever raises while a job is executed, the step that ends
\* the execution takes the worker back to polling.
C40_WorkerKeepsPolling ==
    [][\A w \in Workers :
          /\ pc'[w] # "stopped"
          /\ (pc[w] \in Executing /\ pc'[w] \notin Executing)
                => pc'[w] = "poll"]_vars


(***************************************************************************)
(*                         S P E C I F I C A T I O N S                     *)
(***************************************************************************)
\* Workers, queue and coordinator; the breaker is not in use.
InitJobs ==
    /\ JobsInit
    /\ CBIdle
    /\ RetryIdle
    /\ DLQInit
    /\ LoaderIdle
    /\ PoolIdle
    /\ TelemetryIdle
    /\ InputIdle
    /\ ProposeIdle
    /\ BatchIdle
    /\ HeartbeatIdle
    /\ ConcurrentIdle

\* The breaker making calls; no worker is started.
InitCB ==
    /\ CBInit
    /\ JobsInit
    /\ RetryIdle
    /\ DLQInit
    /\ LoaderIdle
    /\ PoolIdle
    /\ TelemetryIdle
    /\ InputIdle
    /\ ProposeIdle
    /\ BatchIdle
    /\ HeartbeatIdle
    /\ ConcurrentIdle

SpecJobs == InitJobs /\ [][JobsNext]_vars

SpecCoordinator == InitJobs /\ [][CoordinatorNext]_vars

SpecCB == InitCB /\ [][CBNext]_vars

\* The retry wrapper around one call; no worker, no breaker.
InitRetry ==
    /\ RetryInit
    /\ JobsInit
    /\ CBIdle
    /\ DLQInit
    /\ LoaderIdle
    /\ PoolIdle
    /\ TelemetryIdle
    /\ InputIdle
    /\ ProposeIdle
    /\ BatchIdle
    /\ HeartbeatIdle
    /\ ConcurrentIdle

SpecRetry == InitRetry /\ [][RetryNext]_vars

\* The dead letter queue with its reprocessors.
InitDLQ ==
    /\ DLQInit
    /\ JobsInit
    /\ CBIdle
    /\ RetryIdle
    /\ LoaderIdle
    /\ PoolIdle
    /\ TelemetryIdle
    /\ InputIdle
    /\ ProposeIdle
    /\ BatchIdle
    /\ HeartbeatIdle
    /\ ConcurrentIdle

SpecDLQ == InitDLQ /\ [][DLQNext]_vars

\* Runs of the loader on one file, one after another.
InitLoader ==
    /\ LoaderInit
    /\ JobsInit
    /\ CBIdle
    /\ RetryIdle
    /\ DLQInit
    /\ PoolIdle
    /\ TelemetryIdle
    /\ InputIdle
    /\ ProposeIdle
    /\ BatchIdle
    /\ HeartbeatIdle
    /\ ConcurrentIdle

SpecLoader == InitLoader /\ [][LoaderNext]_vars

\* with statements on one pool, one after another.
InitPool ==
    /\ PoolInit
    /\ JobsInit
    /\ CBIdle
    /\ RetryIdle
    /\ DLQInit
    /\ LoaderIdle
    /\ TelemetryIdle
    /\ InputIdle
    /\ ProposeIdle
    /\ BatchIdle
    /\ HeartbeatIdle
    /\ ConcurrentIdle

SpecPool == InitPool /\ [][PoolNext]_vars

\* log(), flush() and close() callers and the background flusher.
InitTelemetry ==
    /\ TelemetryInit
    /\ JobsInit
    /\ CBIdle
    /\ RetryIdle
    /\ DLQInit
    /\ LoaderIdle
    /\ PoolIdle
    /\ InputIdle
    /\ ProposeIdle
    /\ BatchIdle
    /\ HeartbeatIdle
    /\ ConcurrentIdle

SpecTelemetry == InitTelemetry /\ [][TelemetryNext]_vars

\* One execution of a job, from the input config to the cleanup.
InitInput ==
    /\ InputInit
    /\ JobsInit
    /\ CBIdle
    /\ RetryIdle
    /\ DLQInit
    /\ LoaderIdle
    /\ PoolIdle
    /\ TelemetryIdle
    /\ ProposeIdle
    /\ BatchIdle
    /\ HeartbeatIdle
    /\ ConcurrentIdle

SpecInput == InitInput /\ [][InputNext]_vars

\* One propose_fact call on any path and any row.
InitPropose ==
    /\ ProposeInit
    /\ JobsInit
    /\ CBIdle
    /\ RetryIdle
    /\ DLQInit
    /\ LoaderIdle
    /\ PoolIdle
    /\ TelemetryIdle
    /\ InputIdle
    /\ BatchIdle
    /\ HeartbeatIdle
    /\ ConcurrentIdle

SpecPropose == InitPropose /\ [][ProposeNext]_vars

\* One call of process_batch on any batch.
InitBatch ==
    /\ BatchInit
    /\ JobsInit
    /\ CBIdle
    /\ RetryIdle
    /\ DLQInit
    /\ LoaderIdle
    /\ PoolIdle
    /\ TelemetryIdle
    /\ InputIdle
    /\ ProposeIdle
    /\ HeartbeatIdle
    /\ ConcurrentIdle

SpecBatch == InitBatch /\ [][BatchNext]_vars

\* One worker executing jobs one after another, and the threads it started.
InitHeartbeat ==
    /\ HeartbeatInit
    /\ JobsInit
    /\ CBIdle
    /\ RetryIdle
    /\ DLQInit
    /\ LoaderIdle
    /\ PoolIdle
    /\ TelemetryIdle
    /\ InputIdle
    /\ ProposeIdle
    /\ BatchIdle
    /\ ConcurrentIdle

SpecHeartbeat == InitHeartbeat /\ [][HeartbeatNext]_vars

\* process_batch over one batch, its records going through the breaker.
InitGuarded ==
    /\ BatchInit
    /\ raw_batch \in [1..Len(raw_batch) -> GuardedOutcomes]
    /\ CBInit
    /\ JobsInit
    /\ RetryIdle
    /\ DLQInit
    /\ LoaderIdle
    /\ PoolIdle
    /\ TelemetryIdle
    /\ InputIdle
    /\ ProposeIdle
    /\ HeartbeatIdle
    /\ ConcurrentIdle

SpecGuarded == InitGuarded /\ [][GuardedNext]_vars

\* Two loader processes started on the same file, in any interleaving.
InitConcurrent ==
    /\ ConcurrentInit
    /\ JobsInit
    /\ CBIdle
    /\ RetryIdle
    /\ DLQInit
    /\ LoaderIdle
    /\ PoolIdle
    /\ TelemetryIdle
    /\ InputIdle
    /\ ProposeIdle
    /\ BatchIdle
    /\ HeartbeatIdle

SpecConcurrent == InitConcurrent /\ [][ConcurrentNext]_vars

====
